---- MODULE Spec2Model ----
(***************************************************************************)
(* SlimDeploy: the deployment orchestration engine.                        *)
(*                                                                         *)
(* The project store (internal/db/projects.go), the deploy pipeline and    *)
(* the request handlers (internal/api/handlers.go), the container runtime  *)
(* client (docker client, compose manager), the git manager                *)
(* (internal/git/git.go) and the change watcher                            *)
(* (internal/watcher/watcher.go) as one state machine.  Every store call,  *)
(* git call and runtime call of a handler is one atomic step; the steps of *)
(* concurrently running handlers, deploy goroutines and the watcher        *)
(* interleave.                                                             *)
(***************************************************************************)
EXTENDS Integers, Sequences, FiniteSets, TLC

(***************************************************************************)
(* Bounds of the model.                                                    *)
(***************************************************************************)
\* Number of projects ever created (project ids are 1..MaxProjects).
MaxProjects == 2
\* Number of commits the remote branch ever has (commit hashes are 1..MaxCommit).
MaxCommit == 2
\* Number of containers the runtime ever creates (container ids are 1..MaxContainers).
MaxContainers == 2

ProjectIDs == 1..MaxProjects
\* Deploy runs: the watcher's synchronous deployFunc call, and the goroutine
\* started by Handler.Deploy.
WatcherRun == "watcher"
ManualRuns == {"manual"}
RunIDs == {WatcherRun} \cup ManualRuns
\* The other request handlers in flight (create, edit, stop).
HandlerIDs == {1}
\* The goroutines that call Watcher.Start and Watcher.Stop.
CallerIDs == {"c1", "c2"}
\* Number of run() goroutines ever started.
MaxStarts == 2

\* Project names a form may carry.
Names == {"a", "b"}

(***************************************************************************)
(* models.ProjectStatus and models.DeployType.                             *)
(***************************************************************************)
StatusRunning == "running"
StatusStopped == "stopped"
StatusError == "error"
StatusDeploying == "deploying"
StatusPending == "pending"
ProjectStatus == {StatusRunning, StatusStopped, StatusError, StatusDeploying, StatusPending}

DeployTypeImage == "image"
DeployTypeCompose == "compose"

\* The one remote repository URL of the model; "" is "no source tracking".
GitURLs == {"", "url"}
\* Image references; "" is "no image given".
Images == {"", "img"}

VARIABLES
    store,        \* projects table: project id -> row
    nextID,       \* next fresh project id (uuid.New)
    repos,        \* deployments dir: project name -> HEAD commit of the checkout, 0 = no checkout
    derived,      \* names whose checkout holds the derived .slimdeploy-compose.yml
    remoteHead,   \* tip of the remote branch
    containers,   \* the runtime's containers: set of [id, name, project, state]
    nextCid,      \* next fresh container id
    stacks,       \* names whose compose namespace slimdeploy-<name> is up
    runs,         \* deploy runs: run id -> [pc, proj, cid, err, marked, log]
    wpc,          \* watcher scan: position in checkAll / checkProject
    wlist,        \* watcher scan: the projects ListAutoDeployEnabled returned
    widx,         \* watcher scan: index of the project being checked
    wnew,         \* watcher scan: newCommit returned by CheckForUpdates
    wtrace,       \* watcher scan: per checked project, the calls the scan made for it
    hs,           \* request handlers in flight: handler id -> [op, pc, proj]
    wrunning,     \* Watcher.running
    wstopCh,      \* Watcher.stopCh: the channel the field holds
    wclosed,      \* channels that have been closed
    wwg,          \* Watcher.wg counter
    wnextCh,      \* next fresh channel
    loops,        \* run() goroutines, in the order started: [pc, ch]
    callers,      \* goroutines calling Start / Stop: caller id -> position
    lastCall      \* the last call of a function without side effects: [fn, arg, out]

storeVars == <<store, nextID>>
gitVars == <<repos, derived, remoteHead>>
dockerVars == <<containers, nextCid, stacks>>
scanVars == <<wpc, wlist, widx, wnew, wtrace>>
lifeVars == <<wrunning, wstopCh, wclosed, wwg, wnextCh, loops, callers>>
vars == <<store, nextID, repos, derived, remoteHead, containers, nextCid, stacks,
          runs, wpc, wlist, widx, wnew, wtrace, hs,
          wrunning, wstopCh, wclosed, wwg, wnextCh, loops, callers, lastCall>>

\* No call has been made.
NoCall == [fn |-> "", arg |-> <<>>, out |-> <<>>]

Last(seq) == seq[Len(seq)]
Range(seq) == {seq[i] : i \in DOMAIN seq}

(***************************************************************************)
(* models.Project: the fields of a row that the orchestration reads.       *)
(***************************************************************************)
\* The zero-value project: what a handler holds before GetByID.
NoProject ==
    [id |-> 0, name |-> "", gitURL |-> "", deployType |-> DeployTypeImage, image |-> "",
     autoDeploy |-> FALSE, lastCommit |-> 0, status |-> "", statusMsg |-> "",
     containerIDs |-> <<>>]

\* Project.ContainerIDsJSON followed by Project.ParseContainerIDs: a nil slice
\* is stored as "[]" and read back as the empty list.  Container ids start
\* at 1, so <<0>> stands for the nil slice.
NilSlice == <<0>>
ContainerIDsJSON(ids) == IF ids = NilSlice THEN <<>> ELSE ids

(***************************************************************************)
(* ProjectRepository: each call is one SQL statement.                      *)
(***************************************************************************)
\* GetByID: the row, or NoProject for sql.ErrNoRows (nil, nil).
GetByID(id) == IF id \in DOMAIN store THEN store[id] ELSE NoProject

\* GetByName: the row with that name, or NoProject.
GetByName(name) ==
    IF \E i \in DOMAIN store : store[i].name = name
    THEN store[CHOOSE i \in DOMAIN store : store[i].name = name]
    ELSE NoProject

\* UPDATE projects SET status = ?, status_msg = ? WHERE id = ?  (no row: no error).
UpdateStatus(s, id, status, statusMsg) ==
    IF id \in DOMAIN s
    THEN [s EXCEPT ![id].status = status, ![id].statusMsg = statusMsg]
    ELSE s

\* UPDATE projects SET container_ids = ? WHERE id = ?
UpdateContainerIDs(s, id, ids) ==
    IF id \in DOMAIN s
    THEN [s EXCEPT ![id].containerIDs = ContainerIDsJSON(ids)]
    ELSE s

\* UPDATE projects SET last_commit = ? WHERE id = ?
UpdateLastCommit(s, id, commit) ==
    IF id \in DOMAIN s
    THEN [s EXCEPT ![id].lastCommit = commit]
    ELSE s

\* The rows in ORDER BY created_at DESC: ids are handed out in creation order.
RECURSIVE DescSeq(_)
DescSeq(S) ==
    IF S = {} THEN <<>>
    ELSE LET m == CHOOSE x \in S : \A y \in S : y <= x
         IN <<store[m]>> \o DescSeq(S \ {m})

\* SELECT ... FROM projects WHERE auto_deploy = 1 ORDER BY created_at DESC
ListAutoDeployEnabled == DescSeq({i \in DOMAIN store : store[i].autoDeploy})

(***************************************************************************)
(* The git manager: one working directory per project name.                *)
(***************************************************************************)
\* Manager.Exists
Exists(name) == repos[name] # 0

\* Manager.Pull / Manager.Clone succeeding: the checkout is at the remote tip.
\* Clone starts from os.RemoveAll(repoDir), which also removes a derived
\* compose document; Pull of a missing checkout clones.
ReposAfterSync(name) == [repos EXCEPT ![name] = remoteHead]
DerivedAfterSync(name) == IF Exists(name) THEN derived ELSE derived \ {name}

(***************************************************************************)
(* The container runtime.                                                  *)
(***************************************************************************)
\* fmt.Sprintf("slimdeploy-%s", project.Name): the conventional container name.
ContainerName(name) == name

\* Client.GetContainerStatus
GetContainerStatus(cid) ==
    IF \E c \in containers : c.id = cid
    THEN (CHOOSE c \in containers : c.id = cid).state
    ELSE "not_found"

\* Client.ListProjectContainers: the containers labelled slimdeploy.project=<id>.
ListProjectContainers(id) == {c \in containers : c.project = id}

(***************************************************************************)
(* A deploy run: Handler.Deploy's goroutine, or the watcher's deployFunc.  *)
(***************************************************************************)
IdleRun == [pc |-> "idle", proj |-> NoProject, cid |-> 0, err |-> "",
            marked |-> FALSE, log |-> <<>>]

\* The fields of *models.Project that deployProject and checkProject read.
PipelineView(p) ==
    [NoProject EXCEPT !.id = p.id, !.name = p.name, !.gitURL = p.gitURL,
                      !.deployType = p.deployType, !.image = p.image]

\* deployProject after the source sync: the adapter matching the deploy type.
AdapterEntry(p) ==
    IF p.deployType = DeployTypeCompose THEN "up"
    ELSE IF p.image # "" THEN "pullimg" ELSE "run"

\* The run returns to its caller: the goroutine ends, or checkProject returns
\* and checkAll goes on with the next project of its list.
WatcherAdvance ==
    /\ wpc' = IF widx < Len(wlist) THEN "check" ELSE "end"
    /\ widx' = IF widx < Len(wlist) THEN widx + 1 ELSE widx
    /\ UNCHANGED <<wlist, wnew>>

\* The scan's record of the calls made for the project being handled.
Traced(call) == [wtrace EXCEPT ![Len(wtrace)].calls = Append(@, call)]

RunReturns(r, failed) ==
    IF r = WatcherRun
    THEN WatcherAdvance /\ wtrace' = IF failed THEN Traced("Deploy:failed") ELSE wtrace
    ELSE UNCHANGED scanVars

\* Mutant: a deploy request for a project that is deploying is turned away.
Deploy_ChecksStatus(r, id) ==
    /\ r # WatcherRun
    /\ runs[r].pc = "idle"
    /\ GetByID(id) # NoProject
    /\ GetByID(id).status # StatusDeploying
    /\ runs' = [runs EXCEPT ![r] = [IdleRun EXCEPT !.pc = "mark", !.proj = PipelineView(GetByID(id))]]
    /\ UNCHANGED <<storeVars, gitVars, dockerVars, scanVars, hs, lifeVars, lastCall>>

\* Handler.Deploy: GetByID; a missing project is answered 404.
Deploy(r, id) ==
    /\ r # WatcherRun
    /\ runs[r].pc = "idle"
    /\ GetByID(id) # NoProject
    /\ runs' = [runs EXCEPT ![r] = [IdleRun EXCEPT !.pc = "mark", !.proj = PipelineView(GetByID(id))]]
    /\ UNCHANGED <<storeVars, gitVars, dockerVars, scanVars, hs, lifeVars, lastCall>>

\* Handler.Deploy: UpdateStatus(deploying), then go deployProject(...).
DeployMark(r) ==
    /\ runs[r].pc = "mark"
    /\ store' = UpdateStatus(store, runs[r].proj.id, StatusDeploying, "Starting deployment...")
    /\ runs' = [runs EXCEPT ![r].pc = "sync", ![r].marked = TRUE]
    /\ UNCHANGED <<nextID, gitVars, dockerVars, scanVars, hs, lifeVars, lastCall>>

\* Mutant: a failed source sync is recorded but the pipeline goes on.
DeploySync_GoesOn(r) ==
    /\ runs[r].pc = "sync"
    /\ runs' = [runs EXCEPT ![r].pc = AdapterEntry(runs[r].proj), ![r].log = Append(@, "sync"),
                            ![r].err = "failed to pull repository"]
    /\ UNCHANGED <<storeVars, gitVars, dockerVars, scanVars, hs, lifeVars, lastCall>>

\* deployProject: clone or pull the repository if a git URL is configured.
DeploySync(r) ==
    /\ runs[r].pc = "sync"
    /\ LET p == runs[r].proj IN
       IF p.gitURL = ""
       THEN /\ runs' = [runs EXCEPT ![r].pc = AdapterEntry(p)]
            /\ UNCHANGED <<gitVars, wtrace>>
       ELSE \E ok \in BOOLEAN :
            /\ IF ok
               THEN /\ repos' = ReposAfterSync(p.name)
                    /\ derived' = DerivedAfterSync(p.name)
                    /\ runs' = [runs EXCEPT ![r].pc = "commit", ![r].log = Append(@, "sync")]
               ELSE /\ UNCHANGED <<repos, derived>>
                    /\ runs' = [runs EXCEPT ![r].pc = "failed", ![r].log = Append(@, "sync"),
                                            ![r].err = IF Exists(p.name)
                                                       THEN "failed to pull repository"
                                                       ELSE "failed to clone repository"]
            /\ remoteHead' = remoteHead
            /\ wtrace' = IF r # WatcherRun THEN wtrace
                         ELSE Traced(IF ok THEN "Deploy.Pull" ELSE "Deploy.Pull:failed")
    /\ UNCHANGED <<storeVars, dockerVars, wpc, wlist, widx, wnew, hs, lifeVars, lastCall>>

\* deployProject: GetLatestCommit; if err == nil, UpdateLastCommit.
DeployCommit(r) ==
    /\ runs[r].pc = "commit"
    /\ LET p == runs[r].proj IN
       /\ IF Exists(p.name)
          THEN /\ store' = UpdateLastCommit(store, p.id, repos[p.name])
               /\ wtrace' = IF r = WatcherRun THEN Traced("Deploy.UpdateLastCommit") ELSE wtrace
          ELSE UNCHANGED <<store, wtrace>>
       /\ runs' = [runs EXCEPT ![r].pc = AdapterEntry(p), ![r].log = Append(@, "commit")]
    /\ UNCHANGED <<nextID, gitVars, dockerVars, wpc, wlist, widx, wnew, hs, lifeVars, lastCall>>

\* ComposeManager.Up: find and parse the compose file, write the derived
\* document, run docker compose up.
DeployComposeUp(r) ==
    /\ runs[r].pc = "up"
    /\ LET p == runs[r].proj IN
       \E outcome \in {"no file", "tool failed", "ok"} :
          /\ outcome # "no file" => Exists(p.name)
          /\ derived' = IF outcome = "no file" THEN derived ELSE derived \cup {p.name}
          /\ stacks' = IF outcome = "ok" THEN stacks \cup {p.name} ELSE stacks
          /\ runs' = IF outcome = "ok"
                     THEN [runs EXCEPT ![r].pc = "handles", ![r].log = Append(@, "up")]
                     ELSE [runs EXCEPT ![r].pc = "failed", ![r].log = Append(@, "up"),
                                       ![r].err = "docker compose up failed"]
    /\ UNCHANGED <<storeVars, repos, remoteHead, containers, nextCid, scanVars, hs, lifeVars, lastCall>>

\* Client.PullImage
DeployPullImage(r) ==
    /\ runs[r].pc = "pullimg"
    /\ \E ok \in BOOLEAN :
          runs' = IF ok
                  THEN [runs EXCEPT ![r].pc = "run", ![r].log = Append(@, "pullimg")]
                  ELSE [runs EXCEPT ![r].pc = "failed", ![r].log = Append(@, "pullimg"),
                                    ![r].err = "failed to pull image"]
    /\ UNCHANGED <<storeVars, gitVars, dockerVars, scanVars, hs, lifeVars, lastCall>>

\* Mutant: the container of the conventional name is not removed and the
\* runtime accepts a second container of that name.
DeployRunContainer_NoRemove(r) ==
    /\ runs[r].pc = "run"
    /\ LET p == runs[r].proj
           new == [id |-> nextCid, name |-> ContainerName(p.name), project |-> p.id,
                   state |-> "running"]
       IN
       /\ nextCid <= MaxContainers
       /\ containers' = containers \cup {new}
       /\ nextCid' = nextCid + 1
       /\ runs' = [runs EXCEPT ![r].pc = "health", ![r].cid = nextCid,
                               ![r].log = Append(@, "run")]
    /\ UNCHANGED <<storeVars, gitVars, stacks, scanVars, hs, lifeVars, lastCall>>

\* Client.RunContainer: remove the container of the conventional name (errors
\* ignored), create the new one, start it.
DeployRunContainer(r) ==
    /\ runs[r].pc = "run"
    /\ LET p == runs[r].proj
           named == {c \in containers : c.name = ContainerName(p.name)}
       IN
       \E removed \in BOOLEAN, outcome \in {"create failed", "start failed", "exited", "running"} :
          LET kept == IF removed THEN containers \ named ELSE containers
              created == outcome # "create failed"
              new == [id |-> nextCid, name |-> ContainerName(p.name), project |-> p.id,
                      state |-> IF outcome = "start failed" THEN "created" ELSE outcome]
          IN
          \* the runtime refuses a second container of the same name
          /\ created => /\ \A c \in kept : c.name # ContainerName(p.name)
                        /\ nextCid <= MaxContainers
          /\ containers' = IF created THEN kept \cup {new} ELSE kept
          /\ nextCid' = IF created THEN nextCid + 1 ELSE nextCid
          /\ runs' = IF outcome \in {"exited", "running"}
                     THEN [runs EXCEPT ![r].pc = "health", ![r].cid = nextCid,
                                       ![r].log = Append(@, "run")]
                     ELSE [runs EXCEPT ![r].pc = "failed", ![r].log = Append(@, "run"),
                                       ![r].err = "failed to run container"]
    /\ UNCHANGED <<storeVars, gitVars, stacks, scanVars, hs, lifeVars, lastCall>>

\* Mutant: the container of a failed health wait is removed.
DeployWaitForHealthy_TearsDown(r) ==
    /\ runs[r].pc = "health"
    /\ \E inspected \in BOOLEAN :
          LET healthy == inspected /\ GetContainerStatus(runs[r].cid) = "running" IN
          /\ runs' = IF healthy
                     THEN [runs EXCEPT ![r].pc = "handles", ![r].log = Append(@, "health")]
                     ELSE [runs EXCEPT ![r].pc = "failed", ![r].log = Append(@, "health"),
                                       ![r].err = "container health check failed"]
          /\ containers' = IF healthy THEN containers
                           ELSE {c \in containers : c.id # runs[r].cid}
    /\ UNCHANGED <<storeVars, gitVars, nextCid, stacks, scanVars, hs, lifeVars, lastCall>>

\* Client.WaitForHealthy: "running" ends the wait with success; "exited" or
\* "dead", the timeout in any other state, or a failed inspect end it with an
\* error.
DeployWaitForHealthy(r) ==
    /\ runs[r].pc = "health"
    /\ \E inspected \in BOOLEAN :
          runs' = IF inspected /\ GetContainerStatus(runs[r].cid) = "running"
                  THEN [runs EXCEPT ![r].pc = "handles", ![r].log = Append(@, "health")]
                  ELSE [runs EXCEPT ![r].pc = "failed", ![r].log = Append(@, "health"),
                                    ![r].err = "container health check failed"]
    /\ UNCHANGED <<storeVars, gitVars, dockerVars, scanVars, hs, lifeVars, lastCall>>

\* Mutant: the handle list of every run is the nil slice.
RunContainerIDs_Nil(r) == NilSlice

\* deployProject: containerIDs is nil for compose, [containerID] for image.
RunContainerIDs(r) ==
    IF runs[r].proj.deployType = DeployTypeCompose THEN NilSlice ELSE <<runs[r].cid>>

\* deployProject: UpdateContainerIDs(project.ID, containerIDs)
DeployWriteHandles(r) ==
    /\ runs[r].pc = "handles"
    /\ store' = UpdateContainerIDs(store, runs[r].proj.id, RunContainerIDs(r))
    /\ runs' = [runs EXCEPT ![r].pc = "status", ![r].log = Append(@, "handles")]
    /\ UNCHANGED <<nextID, gitVars, dockerVars, scanVars, hs, lifeVars, lastCall>>

\* deployProject: UpdateStatus(project.ID, running, ""); return nil.
DeployWriteRunning(r) ==
    /\ runs[r].pc = "status"
    /\ store' = UpdateStatus(store, runs[r].proj.id, StatusRunning, "")
    /\ runs' = [runs EXCEPT ![r] = IdleRun]
    /\ RunReturns(r, FALSE)
    /\ UNCHANGED <<nextID, gitVars, dockerVars, hs, lifeVars, lastCall>>

\* Mutant: the error status is written with a compare-and-swap that leaves a
\* running status alone.
DeployFailed_CompareAndSwap(r) ==
    /\ runs[r].pc = "failed"
    /\ store' = IF GetByID(runs[r].proj.id).status = StatusRunning
                THEN store
                ELSE UpdateStatus(store, runs[r].proj.id, StatusError, runs[r].err)
    /\ runs' = [runs EXCEPT ![r] = IdleRun]
    /\ RunReturns(r, TRUE)
    /\ UNCHANGED <<nextID, gitVars, dockerVars, hs, lifeVars, lastCall>>

\* Mutant: the caller only logs the error of deployProject.
DeployFailed_OnlyLogged(r) ==
    /\ runs[r].pc = "failed"
    /\ runs' = [runs EXCEPT ![r] = IdleRun]
    /\ RunReturns(r, TRUE)
    /\ UNCHANGED <<storeVars, gitVars, dockerVars, hs, lifeVars, lastCall>>

\* The caller of deployProject on an error: UpdateStatus(project.ID, error,
\* err.Error()), in Handler.Deploy's goroutine and in Watcher.checkProject.
DeployFailed(r) ==
    /\ runs[r].pc = "failed"
    /\ store' = UpdateStatus(store, runs[r].proj.id, StatusError, runs[r].err)
    /\ runs' = [runs EXCEPT ![r] = IdleRun]
    /\ RunReturns(r, TRUE)
    /\ UNCHANGED <<nextID, gitVars, dockerVars, hs, lifeVars, lastCall>>

(***************************************************************************)
(* The change watcher's scan: Watcher.checkAll and Watcher.checkProject.   *)
(***************************************************************************)
\* The fields of a listed project that checkProject and deployProject read.
WatchView(p) == [PipelineView(p) EXCEPT !.status = p.status]

RECURSIVE WatchViews(_)
WatchViews(ps) == IF ps = <<>> THEN <<>> ELSE <<WatchView(Head(ps))>> \o WatchViews(Tail(ps))

\* The ticker fires (or run() starts): checkAll lists the auto-deploy projects.
WatcherScan ==
    /\ wpc = "idle"
    /\ wlist' = WatchViews(ListAutoDeployEnabled)
    /\ wpc' = IF wlist' = <<>> THEN "end" ELSE "check"
    /\ widx' = 1
    /\ wtrace' = <<>>
    /\ UNCHANGED <<storeVars, gitVars, dockerVars, runs, wnew, hs, lifeVars, lastCall>>

\* Mutant: checkProject without the check of the status.
Skipped_StatusIgnored(p) == p.gitURL = "" \/ ~Exists(p.name)

\* checkProject: whether the listed project is skipped without any call.
Skipped(p) == p.gitURL = "" \/ p.status = StatusDeploying \/ ~Exists(p.name)

\* Whether, when checkProject takes up the listed project, its row has
\* auto_deploy set and a source URL, its checkout exists, its status is not
\* deploying (neither as listed nor as stored) and the remote tip differs
\* from the stored last_commit.
Due(p) ==
    /\ GetByID(p.id) # NoProject
    /\ GetByID(p.id).autoDeploy
    /\ GetByID(p.id).status # StatusDeploying
    /\ ~Skipped(p)
    /\ GetByID(p.id).lastCommit # remoteHead

\* checkProject up to CheckForUpdates: the three skips, then
\* GetLatestCommit and GetRemoteLatestCommit (fetch), compared.
WatcherCheck ==
    /\ wpc = "check"
    /\ LET p == wlist[widx] IN
       \/ /\ Skipped(p)
          /\ wtrace' = Append(wtrace, [id |-> p.id, due |-> Due(p), calls |-> <<>>])
          /\ WatcherAdvance
       \/ /\ ~Skipped(p)
          /\ \E fetched \in BOOLEAN :
                LET hasUpdates == fetched /\ repos[p.name] # remoteHead IN
                /\ wtrace' = Append(wtrace, [id |-> p.id, due |-> Due(p),
                                 calls |-> <<IF ~fetched THEN "HasUpdate:failed"
                                             ELSE IF hasUpdates THEN "HasUpdate:true"
                                             ELSE "HasUpdate:false">>])
                /\ IF hasUpdates
                   THEN wpc' = "pull" /\ wnew' = remoteHead /\ UNCHANGED <<wlist, widx>>
                   ELSE WatcherAdvance
    /\ UNCHANGED <<storeVars, gitVars, dockerVars, runs, hs, lifeVars, lastCall>>

\* Mutant: a failed pull ends the scan.
WatcherPull_EndsScan ==
    /\ wpc = "pull"
    /\ wtrace' = Traced("Pull:failed")
    /\ wpc' = "end"
    /\ UNCHANGED <<storeVars, gitVars, dockerVars, runs, wlist, widx, wnew, hs, lifeVars, lastCall>>

\* checkProject: gitManager.Pull; an error ends the handling of the project.
WatcherPull ==
    /\ wpc = "pull"
    /\ LET p == wlist[widx] IN
       \E ok \in BOOLEAN :
          IF ok
          THEN /\ repos' = ReposAfterSync(p.name)
               /\ derived' = DerivedAfterSync(p.name)
               /\ wtrace' = Traced("Pull")
               /\ wpc' = "commit"
               /\ UNCHANGED <<wlist, widx, wnew>>
          ELSE /\ UNCHANGED <<repos, derived>>
               /\ wtrace' = Traced("Pull:failed")
               /\ WatcherAdvance
    /\ UNCHANGED <<storeVars, remoteHead, dockerVars, runs, hs, lifeVars, lastCall>>

\* Mutant: checkProject calls deployFunc without UpdateLastCommit.
WatcherDeploy_NoCommitWrite ==
    /\ wpc = "commit"
    /\ runs' = [runs EXCEPT ![WatcherRun] = [IdleRun EXCEPT !.pc = "sync",
                                                           !.proj = PipelineView(wlist[widx])]]
    /\ wtrace' = Traced("Deploy")
    /\ wpc' = "deploy"
    /\ UNCHANGED <<storeVars, gitVars, dockerVars, wlist, widx, wnew, hs, lifeVars, lastCall>>

\* checkProject: UpdateLastCommit(project.ID, newCommit) (an error is only
\* logged), then deployFunc(ctx, project).
WatcherDeploy ==
    /\ wpc = "commit"
    /\ LET p == wlist[widx] IN
       /\ store' = UpdateLastCommit(store, p.id, wnew)
       /\ runs' = [runs EXCEPT ![WatcherRun] = [IdleRun EXCEPT !.pc = "sync", !.proj = PipelineView(p)]]
    /\ wtrace' = [wtrace EXCEPT ![Len(wtrace)].calls = @ \o <<"UpdateLastCommit", "Deploy">>]
    /\ wpc' = "deploy"
    /\ UNCHANGED <<nextID, gitVars, dockerVars, wlist, widx, wnew, hs, lifeVars, lastCall>>

\* checkAll returns; run() waits for the next tick.
WatcherSleep ==
    /\ wpc = "end"
    /\ wpc' = "idle"
    /\ wlist' = <<>>
    /\ widx' = 0
    /\ wnew' = 0
    /\ wtrace' = <<>>
    /\ UNCHANGED <<storeVars, gitVars, dockerVars, runs, hs, lifeVars, lastCall>>

(***************************************************************************)
(* The other request handlers.                                             *)
(***************************************************************************)
IdleHandler ==
    [op |-> "", pc |-> "idle", proj |-> NoProject, adapter |-> "", failed |-> FALSE, err |-> "",
     steps |-> <<>>, res |-> NoProject]

\* What a project form carries.
\* The image reference of a compose project is never read: it is left empty.
Forms ==
    {f \in [name : Names, gitURL : GitURLs, deployType : {DeployTypeImage, DeployTypeCompose},
            image : Images, autoDeploy : BOOLEAN] :
        f.deployType = DeployTypeCompose => f.image = ""}

\* The forms naming the project "a".
SoloForms == {f \in Forms : f.name = "a"}

\* Mutant: the project is built without a status.
NewProject_NoStatus(form) ==
    [NoProject EXCEPT !.name = form.name, !.gitURL = form.gitURL,
                      !.deployType = form.deployType, !.image = form.image,
                      !.autoDeploy = form.autoDeploy]

\* Handler.CreateProject: the project built from the form, status pending.
NewProject(form) ==
    [NoProject EXCEPT !.name = form.name, !.gitURL = form.gitURL,
                      !.deployType = form.deployType, !.image = form.image,
                      !.autoDeploy = form.autoDeploy, !.status = StatusPending]

\* Handler.CreateProject: the duplicate-name check with GetByName.
CreateProject(h, form) ==
    /\ hs[h].pc = "idle"
    /\ nextID <= MaxProjects
    /\ GetByName(form.name) = NoProject
    /\ hs' = [hs EXCEPT ![h] = [IdleHandler EXCEPT !.op = "create", !.pc = "insert",
                                                   !.proj = NewProject(form)]]
    /\ UNCHANGED <<storeVars, gitVars, dockerVars, runs, scanVars, lifeVars, lastCall>>

\* Mutant: the projects table without the UNIQUE constraint on name.
CreateInsert_NoUnique(h) ==
    /\ hs[h].op = "create" /\ hs[h].pc = "insert"
    /\ store' = store @@ (nextID :> [hs[h].proj EXCEPT !.id = nextID])
    /\ nextID' = nextID + 1
    /\ hs' = [hs EXCEPT ![h] = IdleHandler]
    /\ UNCHANGED <<gitVars, dockerVars, runs, scanVars, lifeVars, lastCall>>

\* ProjectRepository.Create: the INSERT; name is UNIQUE in the schema.
CreateInsert(h) ==
    /\ hs[h].op = "create" /\ hs[h].pc = "insert"
    /\ IF \E i \in DOMAIN store : store[i].name = hs[h].proj.name
       THEN UNCHANGED storeVars
       ELSE /\ store' = store @@ (nextID :> [hs[h].proj EXCEPT !.id = nextID])
            /\ nextID' = nextID + 1
    /\ hs' = [hs EXCEPT ![h] = IdleHandler]
    /\ UNCHANGED <<gitVars, dockerVars, runs, scanVars, lifeVars, lastCall>>

\* Handler.UpdateProject: GetByID.
UpdateProject(h, id) ==
    /\ hs[h].pc = "idle"
    /\ GetByID(id) # NoProject
    /\ hs' = [hs EXCEPT ![h] = [IdleHandler EXCEPT !.op = "edit", !.pc = "update",
                                                   !.proj = GetByID(id)]]
    /\ UNCHANGED <<storeVars, gitVars, dockerVars, runs, scanVars, lifeVars, lastCall>>

\* Handler.UpdateProject: the form's fields replace the project's, then
\* ProjectRepository.Update writes every column of the row.
UpdateSave(h, form) ==
    /\ hs[h].op = "edit" /\ hs[h].pc = "update"
    /\ LET p == [hs[h].proj EXCEPT !.name = form.name, !.gitURL = form.gitURL,
                                   !.deployType = form.deployType, !.image = form.image,
                                   !.autoDeploy = form.autoDeploy]
       IN
       IF p.id \in DOMAIN store /\ \A i \in DOMAIN store \ {p.id} : store[i].name # p.name
       THEN store' = [store EXCEPT ![p.id] = p]
       ELSE store' = store
    /\ hs' = [hs EXCEPT ![h] = IdleHandler]
    /\ UNCHANGED <<nextID, gitVars, dockerVars, runs, scanVars, lifeVars, lastCall>>

\* Handler.Stop: GetByID.
Stop(h, id) ==
    /\ hs[h].pc = "idle"
    /\ GetByID(id) # NoProject
    /\ hs' = [hs EXCEPT ![h] = [IdleHandler EXCEPT !.op = "stop", !.pc = "teardown",
                                                   !.proj = PipelineView(GetByID(id))]]
    /\ UNCHANGED <<storeVars, gitVars, dockerVars, runs, scanVars, lifeVars, lastCall>>

\* ComposeManager.Down: the derived document, else the original compose file;
\* then docker compose down.
ComposeDown(name, ok) ==
    /\ ok => Exists(name)
    /\ stacks' = IF ok THEN stacks \ {name} ELSE stacks
    /\ UNCHANGED <<containers, nextCid>>

\* Client.StopProjectContainers: list the project's containers and stop them
\* one by one; an error of the listing or of a stop ends the call.
StopProjectContainers(id, ok) ==
    /\ \E stopped \in SUBSET ListProjectContainers(id) :
          /\ ok => stopped = ListProjectContainers(id)
          /\ ~ok => (stopped # ListProjectContainers(id) \/ stopped = {})
          /\ containers' = (containers \ stopped) \cup
                {[c EXCEPT !.state = IF @ = "running" THEN "exited" ELSE @] : c \in stopped}
    /\ UNCHANGED <<nextCid, stacks>>

\* Mutant: a tear-down error ends the request.
StopTearDown_ReturnsOnError(h) ==
    /\ hs[h].op = "stop" /\ hs[h].pc = "teardown"
    /\ hs' = [hs EXCEPT ![h] = IdleHandler]
    /\ UNCHANGED <<storeVars, gitVars, dockerVars, runs, scanVars, lifeVars, lastCall>>

\* Handler.Stop: the tear-down by deploy type; an error is only logged.
StopTearDown(h) ==
    /\ hs[h].op = "stop" /\ hs[h].pc = "teardown"
    /\ \E ok \in BOOLEAN :
          /\ IF hs[h].proj.deployType = DeployTypeCompose
             THEN ComposeDown(hs[h].proj.name, ok)
             ELSE StopProjectContainers(hs[h].proj.id, ok)
          /\ hs' = [hs EXCEPT ![h].pc = "write", ![h].failed = ~ok,
                              ![h].adapter = IF hs[h].proj.deployType = DeployTypeCompose
                                             THEN DeployTypeCompose ELSE DeployTypeImage]
    /\ UNCHANGED <<storeVars, gitVars, runs, scanVars, lifeVars, lastCall>>

\* Handler.Stop: UpdateStatus(project.ID, stopped, "").
StopWrite(h) ==
    /\ hs[h].op = "stop" /\ hs[h].pc = "write"
    /\ store' = UpdateStatus(store, hs[h].proj.id, StatusStopped, "")
    /\ hs' = [hs EXCEPT ![h].pc = "done"]
    /\ UNCHANGED <<nextID, gitVars, dockerVars, runs, scanVars, lifeVars, lastCall>>

\* Handler.Stop: the response (the project card, or the redirect) is written.
StopRespond(h) ==
    /\ hs[h].op = "stop" /\ hs[h].pc = "done"
    /\ hs' = [hs EXCEPT ![h] = IdleHandler]
    /\ UNCHANGED <<storeVars, gitVars, dockerVars, runs, scanVars, lifeVars, lastCall>>

\* The fields of the project that Handler.Restart reads.
RestartView(p) == [PipelineView(p) EXCEPT !.containerIDs = p.containerIDs]

\* Handler.Restart: GetByID.
Restart(h, id) ==
    /\ hs[h].pc = "idle"
    /\ GetByID(id) # NoProject
    /\ hs' = [hs EXCEPT ![h] = [IdleHandler EXCEPT !.op = "restart", !.pc = "adapter",
                                                   !.proj = RestartView(GetByID(id))]]
    /\ UNCHANGED <<storeVars, gitVars, dockerVars, runs, scanVars, lifeVars, lastCall>>

\* ComposeManager.Restart: without the derived document it is ComposeManager.Up
\* (error "" means success); otherwise docker compose restart.
RestartCompose(h) ==
    LET p == hs[h].proj IN
    /\ p.deployType = DeployTypeCompose
    /\ IF p.name \notin derived
       THEN \E outcome \in {"no file", "tool failed", "ok"} :
               /\ outcome # "no file" => Exists(p.name)
               /\ derived' = IF outcome = "no file" THEN derived ELSE derived \cup {p.name}
               /\ stacks' = IF outcome = "ok" THEN stacks \cup {p.name} ELSE stacks
               /\ hs' = [hs EXCEPT ![h].pc = "write", ![h].adapter = DeployTypeCompose,
                                   ![h].failed = outcome # "ok",
                                   ![h].err = CASE outcome = "no file" -> "no compose file found"
                                                [] outcome = "tool failed" -> "docker compose up failed"
                                                [] OTHER -> ""]
       ELSE \E ok \in BOOLEAN :
               /\ UNCHANGED <<derived, stacks>>
               /\ hs' = [hs EXCEPT ![h].pc = "write", ![h].adapter = DeployTypeCompose,
                                   ![h].failed = ~ok,
                                   ![h].err = IF ok THEN "" ELSE "docker compose restart failed"]
    /\ UNCHANGED <<containers, repos, remoteHead>>

\* Handler.Restart, image: Client.RestartContainer for each id of the
\* project's container_ids; an error is only logged.
RestartContainers(h) ==
    LET p == hs[h].proj
        owned == {c \in containers : c.id \in Range(p.containerIDs)}
    IN
    /\ p.deployType # DeployTypeCompose
    /\ \E restarted \in SUBSET owned :
          /\ containers' = (containers \ restarted) \cup
                               {[c EXCEPT !.state = "running"] : c \in restarted}
          /\ hs' = [hs EXCEPT ![h].pc = "write", ![h].adapter = DeployTypeImage,
                              ![h].failed = Cardinality(restarted) # Len(p.containerIDs),
                              ![h].err = IF Cardinality(restarted) # Len(p.containerIDs)
                                         THEN "failed to restart container" ELSE ""]
    /\ UNCHANGED <<gitVars, stacks>>

\* Handler.Restart: the restart through the adapter of the deploy type.
RestartAdapter(h) ==
    /\ hs[h].op = "restart" /\ hs[h].pc = "adapter"
    /\ RestartCompose(h) \/ RestartContainers(h)
    /\ UNCHANGED <<storeVars, nextCid, runs, scanVars, lifeVars, lastCall>>

\* Handler.Restart: the status write.  Compose: error with the message if
\* the restart failed, running otherwise.  Image: running.
RestartWrite(h) ==
    /\ hs[h].op = "restart" /\ hs[h].pc = "write"
    /\ store' = IF hs[h].proj.deployType = DeployTypeCompose /\ hs[h].failed
                THEN UpdateStatus(store, hs[h].proj.id, StatusError, hs[h].err)
                ELSE UpdateStatus(store, hs[h].proj.id, StatusRunning, "")
    /\ hs' = [hs EXCEPT ![h].pc = "done"]
    /\ UNCHANGED <<nextID, gitVars, dockerVars, runs, scanVars, lifeVars, lastCall>>

\* Handler.Restart: the response is written.
RestartRespond(h) ==
    /\ hs[h].op = "restart" /\ hs[h].pc = "done"
    /\ hs' = [hs EXCEPT ![h] = IdleHandler]
    /\ UNCHANGED <<storeVars, gitVars, dockerVars, runs, scanVars, lifeVars, lastCall>>

\* Handler.Stop and Handler.Restart when the store is unavailable at their
\* status write: the error UpdateStatus returns is dropped, and the request
\* goes on to the response it gives after a write that succeeded.
StatusWriteFails(h) ==
    /\ hs[h].op \in {"stop", "restart"} /\ hs[h].pc = "write"
    /\ hs' = [hs EXCEPT ![h].pc = "done", ![h].steps = Append(@, "write:failed")]
    /\ UNCHANGED <<storeVars, gitVars, dockerVars, runs, scanVars, lifeVars, lastCall>>

\* Handler.DeleteProject: GetByID; no row is answered with 404 before
\* anything else is done.
DeleteProject(h, id) ==
    /\ hs[h].pc = "idle"
    /\ id < nextID
    /\ hs' = [hs EXCEPT ![h] =
                IF GetByID(id) = NoProject
                THEN [IdleHandler EXCEPT !.op = "delete", !.pc = "done", !.err = "not found",
                                         !.proj = [NoProject EXCEPT !.id = id]]
                ELSE [IdleHandler EXCEPT !.op = "delete", !.pc = "teardown",
                                         !.proj = PipelineView(GetByID(id))]]
    /\ UNCHANGED <<storeVars, gitVars, dockerVars, runs, scanVars, lifeVars, lastCall>>

\* Client.RemoveProjectContainers: list the containers labelled with the
\* project id and remove them one by one (Client.RemoveContainer: stop, error
\* ignored, then remove by force; a container that no longer exists is no
\* error); an error of the listing or of a removal ends the call, the
\* containers not yet reached stay.
RemoveProjectContainers(id, ok) ==
    /\ \E removed \in SUBSET ListProjectContainers(id) :
          /\ ok => removed = ListProjectContainers(id)
          /\ ~ok => (removed # ListProjectContainers(id) \/ removed = {})
          /\ containers' = containers \ removed
    /\ UNCHANGED <<nextCid, stacks>>

\* Mutant: a tear-down error ends the request.
DeleteTearDown_ReturnsOnError(h) ==
    /\ hs[h].op = "delete" /\ hs[h].pc = "teardown"
    /\ \E ok \in BOOLEAN :
          /\ IF hs[h].proj.deployType = DeployTypeCompose
             THEN ComposeDown(hs[h].proj.name, ok)
             ELSE RemoveProjectContainers(hs[h].proj.id, ok)
          /\ hs' = [hs EXCEPT ![h] = IF ok THEN [@ EXCEPT !.pc = "checkout",
                                                          !.steps = Append(@, "teardown")]
                                     ELSE IdleHandler]
    /\ UNCHANGED <<storeVars, gitVars, runs, scanVars, lifeVars, lastCall>>

\* Handler.DeleteProject: the tear-down by deploy type; the result is dropped.
DeleteTearDown(h) ==
    /\ hs[h].op = "delete" /\ hs[h].pc = "teardown"
    /\ \E ok \in BOOLEAN :
          /\ IF hs[h].proj.deployType = DeployTypeCompose
             THEN ComposeDown(hs[h].proj.name, ok)
             ELSE RemoveProjectContainers(hs[h].proj.id, ok)
          /\ hs' = [hs EXCEPT ![h].pc = "checkout", ![h].failed = ~ok,
                              ![h].steps = Append(@, IF ok THEN "teardown" ELSE "teardown:failed"),
                              ![h].adapter = IF hs[h].proj.deployType = DeployTypeCompose
                                             THEN DeployTypeCompose ELSE DeployTypeImage]
    /\ UNCHANGED <<storeVars, gitVars, runs, scanVars, lifeVars, lastCall>>

\* Handler.DeleteProject: Manager.Remove, os.RemoveAll of the project's
\* directory (checkout and derived compose document); the result is dropped.
DeleteCheckout(h) ==
    /\ hs[h].op = "delete" /\ hs[h].pc = "checkout"
    /\ \E ok \in BOOLEAN :
          /\ repos' = IF ok THEN [repos EXCEPT ![hs[h].proj.name] = 0] ELSE repos
          /\ derived' = IF ok THEN derived \ {hs[h].proj.name} ELSE derived
          /\ hs' = [hs EXCEPT ![h].pc = "record",
                              ![h].steps = Append(@, IF ok THEN "checkout" ELSE "checkout:failed")]
    /\ UNCHANGED <<storeVars, remoteHead, dockerVars, runs, scanVars, lifeVars, lastCall>>

\* ProjectRepository.Delete: DELETE FROM projects WHERE id = ?; no row
\* affected is the error "project not found".
Delete(s, id) == [i \in DOMAIN s \ {id} |-> s[i]]

\* Handler.DeleteProject: the removal of the row.
DeleteRecord(h) ==
    /\ hs[h].op = "delete" /\ hs[h].pc = "record"
    /\ store' = Delete(store, hs[h].proj.id)
    /\ hs' = [hs EXCEPT ![h].pc = "done", ![h].steps = Append(@, "record"),
                        ![h].err = IF hs[h].proj.id \in DOMAIN store THEN "" ELSE "project not found"]
    /\ UNCHANGED <<nextID, gitVars, dockerVars, runs, scanVars, lifeVars, lastCall>>

\* Handler.DeleteProject: the response (404, 500 or the redirect) is written.
DeleteRespond(h) ==
    /\ hs[h].op = "delete" /\ hs[h].pc = "done"
    /\ hs' = [hs EXCEPT ![h] = IdleHandler]
    /\ UNCHANGED <<storeVars, gitVars, dockerVars, runs, scanVars, lifeVars, lastCall>>

(***************************************************************************)
(* The environment.                                                        *)
(***************************************************************************)
\* Somebody pushes a commit to the remote branch.
RemotePush ==
    /\ remoteHead < MaxCommit
    /\ remoteHead' = remoteHead + 1
    /\ UNCHANGED <<storeVars, repos, derived, dockerVars, runs, scanVars, hs, lifeVars, lastCall>>

(***************************************************************************)
(* The orchestration: an empty store, no checkout, no container.           *)
(***************************************************************************)
LifeIdle ==
    /\ wrunning = FALSE
    /\ wstopCh = 0
    /\ wclosed = {}
    /\ wwg = 0
    /\ wnextCh = 1
    /\ loops = <<>>
    /\ callers = [c \in CallerIDs |-> "idle"]
    /\ lastCall = NoCall

Init ==
    /\ store = <<>>
    /\ nextID = 1
    /\ repos = [n \in Names |-> 0]
    /\ derived = {}
    /\ remoteHead = 1
    /\ containers = {}
    /\ nextCid = 1
    /\ stacks = {}
    /\ runs = [r \in RunIDs |-> IdleRun]
    /\ wpc = "idle"
    /\ wlist = <<>>
    /\ widx = 0
    /\ wnew = 0
    /\ wtrace = <<>>
    /\ hs = [h \in HandlerIDs |-> IdleHandler]
    /\ LifeIdle

\* A step of deployProject or of its caller's error handling.
PipelineStep(r) ==
    \/ DeploySync(r)
    \/ DeployCommit(r)
    \/ DeployComposeUp(r)
    \/ DeployPullImage(r)
    \/ DeployRunContainer(r)
    \/ DeployWaitForHealthy(r)
    \/ DeployWriteHandles(r)
    \/ DeployWriteRunning(r)
    \/ DeployFailed(r)

RunStep(r) == DeployMark(r) \/ PipelineStep(r)

WatcherStep ==
    \/ WatcherScan
    \/ WatcherCheck
    \/ WatcherPull
    \/ WatcherDeploy
    \/ WatcherSleep

StopStep(h) ==
    \/ \E id \in ProjectIDs : Stop(h, id)
    \/ StopTearDown(h)
    \/ StopWrite(h)
    \/ StopRespond(h)

\* A create request for the one project of the scenario.
CreateSolo(h) ==
    \/ \E form \in SoloForms : store = <<>> /\ CreateProject(h, form)
    \/ CreateInsert(h)

\* One project, deployed on request and by the watcher while commits are
\* pushed to its remote branch.
Next ==
    \/ \E h \in HandlerIDs : CreateSolo(h)
    \/ \E r \in ManualRuns, id \in ProjectIDs : Deploy(r, id)
    \/ \E r \in RunIDs : RunStep(r)
    \/ WatcherStep
    \/ RemotePush

Spec == Init /\ [][Next]_vars

\* Every deploy run that can take a step eventually takes one: a goroutine
\* that is runnable is scheduled.
SpecFair == Spec /\ \A r \in RunIDs : WF_vars(RunStep(r))

(***************************************************************************)
(* One project, with deploy, stop, restart and edit requests.              *)
(***************************************************************************)
\* The edit forms of the scenario keep the name, the deploy type and the image.
EditForms(p) == {f \in SoloForms : f.deployType = p.deployType /\ f.image = p.image}

RestartStep(h) ==
    \/ \E id \in ProjectIDs : Restart(h, id)
    \/ RestartAdapter(h)
    \/ RestartWrite(h)
    \/ RestartRespond(h)

DeleteStep(h) ==
    \/ \E id \in ProjectIDs : DeleteProject(h, id)
    \/ DeleteTearDown(h)
    \/ DeleteCheckout(h)
    \/ DeleteRecord(h)
    \/ DeleteRespond(h)

EditStep(h) ==
    \/ \E id \in ProjectIDs : UpdateProject(h, id)
    \/ \E form \in EditForms(hs[h].proj) : UpdateSave(h, form)

NextOps ==
    \/ \E h \in HandlerIDs : CreateSolo(h)
    \/ \E r \in ManualRuns, id \in ProjectIDs : Deploy(r, id)
    \/ \E r \in ManualRuns : RunStep(r)
    \/ \E h \in HandlerIDs : StopStep(h)
    \/ \E h \in HandlerIDs : EditStep(h)
    \/ \E h \in HandlerIDs : RestartStep(h)

SpecOps == Init /\ [][NextOps]_vars

(***************************************************************************)
(* The label synthesizer (internal/docker/labels.go).  A string is the     *)
(* sequence of its characters.                                             *)
(***************************************************************************)
MaxNameLen == 3

\* The characters of the names: a lower-case and an upper-case letter, a
\* digit, the hyphen and two characters that are neither.
Chars == {"a", "Z", "7", "-", "_", "."}

UpperLetters == <<"A", "B", "C", "D", "E", "F", "G", "H", "I", "J", "K", "L", "M", "N", "O", "P", "Q", "R", "S", "T", "U", "V", "W", "X", "Y", "Z">>
LowerLetters == <<"a", "b", "c", "d", "e", "f", "g", "h", "i", "j", "k", "l", "m", "n", "o", "p", "q", "r", "s", "t", "u", "v", "w", "x", "y", "z">>
Digits == {"0", "1", "2", "3", "4", "5", "6", "7", "8", "9"}
LowerAlnum == Range(LowerLetters) \cup Digits

NameStrings == UNION {[1..n -> Chars] : n \in 0..MaxNameLen}

\* strings.ToLower on one character.
ToLower(c) ==
    IF \E i \in DOMAIN UpperLetters : UpperLetters[i] = c
    THEN LowerLetters[CHOOSE i \in DOMAIN UpperLetters : UpperLetters[i] = c]
    ELSE c

\* sanitizeRouterName, the first loop: lower-case letters and digits are
\* kept, every other character becomes a hyphen.
Hyphenated(str) ==
    [i \in DOMAIN str |-> IF ToLower(str[i]) \in LowerAlnum THEN ToLower(str[i]) ELSE "-"]

\* strings.Contains(str, "--").
HasDoubleHyphen(str) == \E i \in 1..(Len(str) - 1) : str[i] = "-" /\ str[i + 1] = "-"

\* strings.ReplaceAll(str, "--", "-"): the non-overlapping occurrences, from
\* the left.
RECURSIVE ReplaceDouble(_)
ReplaceDouble(str) ==
    IF Len(str) < 2 THEN str
    ELSE IF str[1] = "-" /\ str[2] = "-"
         THEN <<"-">> \o ReplaceDouble(SubSeq(str, 3, Len(str)))
         ELSE <<str[1]>> \o ReplaceDouble(Tail(str))

\* for strings.Contains(cleaned, "--") { cleaned = strings.ReplaceAll(...) }
RECURSIVE Squeezed(_)
Squeezed(str) == IF HasDoubleHyphen(str) THEN Squeezed(ReplaceDouble(str)) ELSE str

\* strings.Trim(str, "-").
RECURSIVE Trim(_)
Trim(str) ==
    IF str = <<>> THEN str
    ELSE IF Head(str) = "-" THEN Trim(Tail(str))
    ELSE IF Last(str) = "-" THEN Trim(SubSeq(str, 1, Len(str) - 1))
    ELSE str

\* Mutant: the hyphens at the ends are kept.
sanitizeRouterName_NoTrim(name) == Squeezed(Hyphenated(name))

sanitizeRouterName(name) == Trim(Squeezed(Hyphenated(name)))

\* The domains of the scenario, "" for none.
Localhost == <<"l", "o", "c", "a", "l", "h", "o", "s", "t">>
Domains ==
    {<<>>, Localhost, <<"a", ".", "l", "o", "c", "a", "l", "h", "o", "s", "t">>, <<"a", ".", "c", "o", "m">>, <<"a", "l", "o", "c", "a", "l", "h", "o", "s", "t">>, <<"l", "o", "c", "a", "l", "h", "o", "s", "t", ".", "c", "o", "m">>}

\* The settings of a project that the labels are made from; the name is
\* never empty (Handler.CreateProject).
LabelProjects ==
    [name : {<<"a">>, <<"Z", "_", "7">>, <<"-">>}, domain : Domains, useSubdomain : BOOLEAN,
     port : {0, 8080}]

\* Project.GetEffectiveDomain.
GetEffectiveDomain(p, baseDomain) ==
    IF p.domain # <<>> THEN p.domain
    ELSE IF p.useSubdomain /\ baseDomain # <<>> THEN p.name \o <<".">> \o baseDomain
    ELSE <<>>

\* Mutant: no domain counts as local.
HasSuffix_Never(str, suffix) == FALSE

\* strings.HasSuffix.
HasSuffix(str, suffix) ==
    Len(str) >= Len(suffix) /\ SubSeq(str, Len(str) - Len(suffix) + 1, Len(str)) = suffix

\* A label key: traefik.enable, traefik.docker.network,
\* traefik.http.services.<name>.<field> or traefik.http.routers.<name>.<field>.
Key(kind, name, field) == [kind |-> kind, name |-> name, field |-> field]

\* The labels of one router name: the map literal and the assignments that
\* follow it, a later assignment to a key replacing an earlier one.
TraefikLabels(routerName, p, baseDomain) ==
    LET domain == GetEffectiveDomain(p, baseDomain)
        port == IF p.port = 0 THEN 80 ELSE p.port
        isLocal == HasSuffix(domain, <<".">> \o Localhost) \/ domain = Localhost
        httpName == routerName \o <<"-", "h", "t", "t", "p">>
        base == (Key("docker.network", <<>>, "") :> "slimdeploy")
                @@ (Key("enable", <<>>, "") :> "true")
                @@ (Key("service", routerName, "loadbalancer.server.port") :> port)
    IN
    IF domain = <<>> THEN <<>>
    ELSE IF isLocal
         THEN (Key("router", routerName, "entrypoints") :> "web")
              @@ (Key("router", routerName, "rule") :> [host |-> domain])
              @@ base
         ELSE (Key("router", routerName, "tls.certresolver") :> "letsencrypt")
              @@ (Key("router", routerName, "entrypoints") :> "websecure")
              @@ (Key("router", routerName, "rule") :> [host |-> domain])
              @@ (Key("router", httpName, "middlewares") :> "redirect-to-https@docker")
              @@ (Key("router", httpName, "entrypoints") :> "web")
              @@ (Key("router", httpName, "rule") :> [host |-> domain])
              @@ base

\* Mutant: the labels of an explicit domain are made only when the derived
\* subdomain is available too.
GenerateTraefikLabels_NeedsSubdomain(p, baseDomain) ==
    IF p.useSubdomain /\ baseDomain # <<>>
    THEN TraefikLabels(sanitizeRouterName(p.name), p, baseDomain)
    ELSE <<>>

GenerateTraefikLabels(p, baseDomain) == TraefikLabels(sanitizeRouterName(p.name), p, baseDomain)

GenerateTraefikLabelsForCompose(p, baseDomain, serviceName) ==
    TraefikLabels(sanitizeRouterName(p.name \o <<"-">> \o serviceName), p, baseDomain)

\* A call of GenerateTraefikLabels or, with a service name, of
\* GenerateTraefikLabelsForCompose.
CallGenerate ==
    /\ lastCall = NoCall
    /\ \E p \in LabelProjects, baseDomain \in {<<>>, Localhost, <<"b", ".", "i", "o">>},
          serviceName \in {<<>>, <<"w", "e", "b">>} :
          lastCall' = [fn |-> IF serviceName = <<>> THEN "GenerateTraefikLabels"
                                                   ELSE "GenerateTraefikLabelsForCompose",
                       arg |-> [project |-> p, baseDomain |-> baseDomain, service |-> serviceName],
                       out |-> IF serviceName = <<>>
                               THEN GenerateTraefikLabels(p, baseDomain)
                               ELSE GenerateTraefikLabelsForCompose(p, baseDomain, serviceName)]
    /\ UNCHANGED <<storeVars, gitVars, dockerVars, runs, scanVars, hs, lifeVars>>

\* A call of sanitizeRouterName.
CallSanitize ==
    /\ lastCall = NoCall
    /\ \E name \in NameStrings :
          lastCall' = [fn |-> "sanitizeRouterName", arg |-> name, out |-> sanitizeRouterName(name)]
    /\ UNCHANGED <<storeVars, gitVars, dockerVars, runs, scanVars, hs, lifeVars>>

NextLabels == CallSanitize \/ CallGenerate

SpecLabels == Init /\ [][NextLabels]_vars

(***************************************************************************)
(* ComposeManager.InjectLabels: the labels and networks of the services of *)
(* a compose document.                                                     *)
(***************************************************************************)
\* Service names of the sample documents: two of the conventional names and
\* two others.
App == <<"a", "p", "p">>
Web == <<"w", "e", "b">>
Db == <<"d", "b">>
Redis == <<"r", "e", "d", "i", "s">>
ServiceNames == {App, Web, Db, Redis}

\* mainCandidates of findMainService, in its order.
mainCandidates ==
    <<App, Web, <<"a", "p", "i">>, <<"s", "e", "r", "v", "e", "r">>,
      <<"f", "r", "o", "n", "t", "e", "n", "d">>, <<"b", "a", "c", "k", "e", "n", "d">>,
      <<"n", "g", "i", "n", "x">>>>

\* NetworkName and LabelPrefix.
NetworkName == "slimdeploy"
LabelPrefix == <<"s", "l", "i", "m", "d", "e", "p", "l", "o", "y">>
TraefikDot == <<"t", "r", "a", "e", "f", "i", "k", ".">>

\* A label key that is not one of the proxy's, by its text.
Plain(text) == Key("plain", text, "")
ManagedKey == Plain(LabelPrefix \o <<".", "m", "a", "n", "a", "g", "e", "d">>)
ProjectKey == Plain(LabelPrefix \o <<".", "p", "r", "o", "j", "e", "c", "t">>)

\* The text of a label key.
KeyText(k) ==
    IF k.kind = "plain" THEN k.name ELSE TraefikDot \o <<k.kind>> \o k.name \o <<k.field>>

\* strings.HasPrefix.
HasPrefix(str, prefix) == Len(str) >= Len(prefix) /\ SubSeq(str, 1, Len(prefix)) = prefix

\* A YAML value that is a string, and one that is not.
Str(v) == [str |-> TRUE, val |-> v]
NotStr == [str |-> FALSE, val |-> ""]

\* An item key[=value] of a label list.
Item(k, eq, v) == [str |-> TRUE, key |-> k, eq |-> eq, val |-> v]
NotStrItem == [str |-> FALSE, key |-> Plain(<<>>), eq |-> FALSE, val |-> ""]

Nil == [form |-> "nil"]
OldRule == Key("router", <<"o", "l", "d">>, "rule")

\* The labels of a service as the document gives them: none, a map or a list.
MapLabels ==
    [form |-> "map",
     items |-> (Plain(<<"c", "o", "m", ".", "x">>) :> Str("1"))
               @@ (Key("enable", <<>>, "") :> Str("false"))
               @@ (OldRule :> Str("old"))
               @@ (Key("docker.network", <<>>, "") :> Str("old"))]
TypedLabels ==
    [form |-> "map",
     items |-> (Key("enable", <<>>, "") :> NotStr) @@ (ManagedKey :> Str("false"))]
ListLabelsForm ==
    [form |-> "list",
     items |-> << Item(OldRule, TRUE, "old"),
                  Item(Plain(<<"c", "o", "m", ".", "x">>), FALSE, ""),
                  NotStrItem,
                  Item(Plain(<<"t", "r", "a", "e", "f", "i", "k">>), TRUE, "1") >>]

\* The networks of a service as the document gives them: none, a list or a map.
List(items) == [form |-> "list", items |-> items]
MapNetworks == [form |-> "map", items |-> {"default", NetworkName}]

\* The labels and networks the services of the sample documents have.
ServiceForms ==
    { [labels |-> Nil, networks |-> Nil],
      [labels |-> MapLabels, networks |-> List(<<Str("default")>>)],
      [labels |-> TypedLabels, networks |-> MapNetworks],
      [labels |-> ListLabelsForm, networks |-> List(<<Str(NetworkName)>>)],
      [labels |-> Nil, networks |-> List(<<Str(NetworkName), Str(NetworkName)>>)],
      [labels |-> MapLabels, networks |-> List(<<NotStr, Str("default"), Str(NetworkName)>>)] }

MaxServices == 2

\* The sample documents: up to MaxServices services and a top-level network.
ComposeFiles ==
    UNION {[services : [names -> ServiceForms], networks : {{"default"}}] :
              names \in {n \in SUBSET ServiceNames : Cardinality(n) \in 1..MaxServices}}

\* The projects whose documents are injected.
InjectProjects ==
    {[id |-> f[1], name |-> <<"a">>, domain |-> f[2], useSubdomain |-> FALSE, port |-> 0] :
        f \in {<<"p1", <<"a", ".", "c", "o", "m">>>>, <<"p2", Localhost>>, <<"p1", <<>>>>}}

\* The orders a range over a two-key map can take.
Orders(set) == {o \in [1..Cardinality(set) -> set] : \A x \in set : \E i \in DOMAIN o : o[i] = x}

\* getNetworksAsList; order is the order the range over a map takes.
RECURSIVE StringsOf(_)
StringsOf(items) ==
    IF items = <<>> THEN <<>>
    ELSE (IF Head(items).str THEN <<Head(items).val>> ELSE <<>>) \o StringsOf(Tail(items))

getNetworksAsList(networks, order) ==
    IF networks.form = "nil" THEN <<>>
    ELSE IF networks.form = "list" THEN StringsOf(networks.items)
    ELSE order

\* getLabelsAsMap: the string values of a map; of a list, the items split at
\* their first "=", a later item replacing an earlier one of the same key.
RECURSIVE ListLabels(_)
ListLabels(items) ==
    IF items = <<>> THEN <<>>
    ELSE LET item == items[Len(items)]
             rest == ListLabels(SubSeq(items, 1, Len(items) - 1))
         IN IF item.str
            THEN (item.key :> (IF item.eq THEN item.val ELSE "")) @@ rest
            ELSE rest

getLabelsAsMap(labels) ==
    IF labels.form = "nil" THEN <<>>
    ELSE IF labels.form = "map"
         THEN [k \in {j \in DOMAIN labels.items : labels.items[j].str} |-> labels.items[k].val]
         ELSE ListLabels(labels.items)

\* findMainService; first is the key the range over the services yields first.
findMainService(compose, first) ==
    LET found == {i \in DOMAIN mainCandidates : mainCandidates[i] \in DOMAIN compose.services}
    IN IF found # {} THEN mainCandidates[CHOOSE i \in found : \A j \in found : i <= j]
       ELSE first

\* The keys InjectLabels removes from the labels of a service.
Conflicting(k) == HasPrefix(KeyText(k), TraefikDot) /\ KeyText(k) # KeyText(Key("enable", <<>>, ""))

\* Mutant: the labels of the document are all kept.
Kept_All(labels) == labels

\* The labels of a service without the conflicting ones.
Kept(labels) == [k \in {j \in DOMAIN labels : ~Conflicting(j)} |-> labels[k]]

\* The test of the main service in the loop of InjectLabels.
IsMain(name, mainService, compose, first) ==
    name = mainService \/ (mainService = <<>> /\ name = findMainService(compose, first))

\* The body of the loop of InjectLabels for one service.
InjectService(p, baseDomain, compose, mainService, name, first, order) ==
    LET service == compose.services[name]
        networks == getNetworksAsList(service.networks, order)
        labels == (ProjectKey :> p.id) @@ (ManagedKey :> "true")
                  @@ Kept(getLabelsAsMap(service.labels))
    IN [networks |-> IF \E i \in DOMAIN networks : networks[i] = NetworkName
                     THEN networks
                     ELSE Append(networks, NetworkName),
        labels |-> IF IsMain(name, mainService, compose, first)
                   THEN GenerateTraefikLabelsForCompose(p, baseDomain, name) @@ labels
                   ELSE labels]

\* InjectLabels; firsts[name] is the key the range of findMainService yields
\* first when the loop is at the service name.
InjectLabels(p, baseDomain, compose, mainService, firsts, order) ==
    [services |-> [name \in DOMAIN compose.services |->
                      InjectService(p, baseDomain, compose, mainService, name, firsts[name], order)],
     networks |-> compose.networks \cup {NetworkName}]

\* A call of InjectLabels, with the override Up passes (none) or with a
\* service of the document.
CallInject ==
    /\ lastCall = NoCall
    /\ \E p \in InjectProjects, compose \in ComposeFiles, order \in Orders({"default", NetworkName}) :
       \E mainService \in {<<>>} \cup DOMAIN compose.services,
          firsts \in [DOMAIN compose.services -> DOMAIN compose.services] :
          lastCall' = [fn |-> "InjectLabels",
                       arg |-> [project |-> p, compose |-> compose, mainService |-> mainService],
                       out |-> InjectLabels(p, <<>>, compose, mainService, firsts, order)]
    /\ UNCHANGED <<storeVars, gitVars, dockerVars, runs, scanVars, hs, lifeVars>>

NextInject == CallInject

SpecInject == Init /\ [][NextInject]_vars

(***************************************************************************)
(* Manager.CheckForUpdates on the checkouts, with pulls and pushes between *)
(* the calls.                                                              *)
(***************************************************************************)
\* No earlier call of CheckForUpdates.
NoCheck == [name |-> "", head |-> 0, has |-> FALSE, tip |-> 0, err |-> FALSE]

\* Mutant: every fetched tip is reported as an update.
CheckForUpdates_AlwaysNew(name, fetched) ==
    IF ~Exists(name) \/ ~fetched
    THEN [has |-> FALSE, tip |-> 0, err |-> TRUE]
    ELSE [has |-> TRUE, tip |-> remoteHead, err |-> FALSE]

\* Manager.CheckForUpdates: GetLatestCommit (HEAD of the checkout), then
\* GetRemoteLatestCommit (fetch into refs/remotes/origin/<branch>, then that
\* reference); an error of either is returned with false and "".
CheckForUpdates(name, fetched) ==
    IF ~Exists(name) \/ ~fetched
    THEN [has |-> FALSE, tip |-> 0, err |-> TRUE]
    ELSE [has |-> repos[name] # remoteHead, tip |-> remoteHead, err |-> FALSE]

\* A call of CheckForUpdates; the call before it is kept with its result.
CallCheckForUpdates ==
    \E name \in Names, fetched \in BOOLEAN :
       /\ lastCall' = [fn |-> "CheckForUpdates",
                       arg |-> [name |-> name, head |-> repos[name], remote |-> remoteHead,
                                prev |-> IF lastCall.fn = "CheckForUpdates"
                                         THEN [name |-> lastCall.arg.name,
                                               head |-> lastCall.arg.head,
                                               has |-> lastCall.out.has,
                                               tip |-> lastCall.out.tip,
                                               err |-> lastCall.out.err]
                                         ELSE NoCheck],
                       out |-> CheckForUpdates(name, fetched)]
       /\ lastCall' # lastCall
       /\ UNCHANGED <<storeVars, gitVars, dockerVars, runs, scanVars, hs, lifeVars>>

\* Manager.Pull: clone when there is no checkout, else pull the branch.
GitPull ==
    \E name \in Names, ok \in BOOLEAN :
       /\ repos' = IF ok THEN ReposAfterSync(name) ELSE repos
       /\ UNCHANGED <<storeVars, derived, remoteHead, dockerVars, runs, scanVars, hs, lifeVars,
                      lastCall>>

NextGit == CallCheckForUpdates \/ GitPull \/ RemotePush

SpecGit == Init /\ [][NextGit]_vars

(***************************************************************************)
(* Manager.getAuth: the authentication chosen for a git URL.               *)
(***************************************************************************)
GitAt == <<"g", "i", "t", "@">>
SSHScheme == <<"s", "s", "h", ":", "/", "/">>

\* The git URLs of the calls: every prefix of an scp-like URL, of an ssh://
\* URL, of an https:// URL and of a URL without a scheme.
Prefixes(str) == {SubSeq(str, 1, n) : n \in 0..Len(str)}
GitURLStrings ==
    Prefixes(GitAt \o <<"h", ":", "r">>) \cup Prefixes(SSHScheme \o <<"h", "/", "r">>)
        \cup Prefixes(<<"h", "t", "t", "p", "s", ":", "/", "/", "h">>)
        \cup Prefixes(<<"g", "i", "t", ".", "h", "/", "r">>)

\* url[:n] panics for a string shorter than n.
SlicePanics(url, n) == n > Len(url)

\* isSSHURL: len(url) > 4 && (url[:4] == "git@" || url[:6] == "ssh://"),
\* evaluated from the left.
isSSHURL(url) ==
    IF ~(Len(url) > 4) THEN "false"
    ELSE IF SubSeq(url, 1, 4) = GitAt THEN "true"
    ELSE IF SlicePanics(url, 6) THEN "panic"
    ELSE IF SubSeq(url, 1, 6) = SSHScheme THEN "true" ELSE "false"

\* Manager.getAuth; key is the configured key path ("" for none), exists
\* the answer of os.Stat and parses that of ssh.NewPublicKeysFromFile.
getAuth(url, key, exists, parses) ==
    LET ssh == isSSHURL(url) IN
    IF ssh = "panic" THEN "panic"
    ELSE IF ssh = "true" /\ key # "" /\ exists
         THEN IF parses THEN "publickey" ELSE "failed to create SSH auth"
         ELSE "none"

\* A call of getAuth.
CallGetAuth ==
    /\ lastCall = NoCall
    /\ \E url \in GitURLStrings, key \in {"", "/keys/id"}, exists \in BOOLEAN, parses \in BOOLEAN :
          /\ (key = "" => ~exists) /\ (parses => exists)
          /\ lastCall' = [fn |-> "getAuth",
                          arg |-> [url |-> url, key |-> key, exists |-> exists, parses |-> parses],
                          out |-> getAuth(url, key, exists, parses)]
    /\ UNCHANGED <<storeVars, gitVars, dockerVars, runs, scanVars, hs, lifeVars>>

NextAuth == CallGetAuth

SpecAuth == Init /\ [][NextAuth]_vars

(***************************************************************************)
(* loadConfig's watch interval and the ticker of Watcher.run.              *)
(***************************************************************************)
\* The longest value of WATCH_INTERVAL.
MaxSettingLen == 3

\* The values of WATCH_INTERVAL: strings of a sign, digits and letters.
SettingChars == {"-", "0", "1", "6", "s", "m", "x"}
Settings == UNION {[1..n -> SettingChars] : n \in 0..MaxSettingLen}

\* The units of time.ParseDuration that the values can spell, in
\* milliseconds.
UnitMs(unit) ==
    IF unit = <<"s">> THEN 1000 ELSE IF unit = <<"m">> THEN 60000
    ELSE IF unit = <<"m", "s">> THEN 1 ELSE 0

DigitValue(c) == IF c = "0" THEN 0 ELSE IF c = "1" THEN 1 ELSE 6
IsDigit(c) == c \in {"0", "1", "6"}

\* The length of the longest prefix of digits, and of other characters.
RECURSIVE LeadingDigits(_)
LeadingDigits(str) ==
    IF str # <<>> /\ IsDigit(Head(str)) THEN 1 + LeadingDigits(Tail(str)) ELSE 0
RECURSIVE LeadingOthers(_)
LeadingOthers(str) ==
    IF str # <<>> /\ ~IsDigit(Head(str)) THEN 1 + LeadingOthers(Tail(str)) ELSE 0

RECURSIVE Number(_)
Number(digits) ==
    IF digits = <<>> THEN 0
    ELSE 10 * Number(SubSeq(digits, 1, Len(digits) - 1)) + DigitValue(digits[Len(digits)])

ParseError == [ok |-> FALSE, ms |-> 0]

\* time.ParseDuration after the sign: groups of digits and a unit.
RECURSIVE ParseGroups(_)
ParseGroups(str) ==
    IF str = <<>> THEN [ok |-> TRUE, ms |-> 0]
    ELSE LET n == LeadingDigits(str)
             rest == SubSeq(str, n + 1, Len(str))
             u == LeadingOthers(rest)
             unit == SubSeq(rest, 1, u)
             more == ParseGroups(SubSeq(rest, u + 1, Len(rest)))
         IN IF n = 0 \/ u = 0 \/ UnitMs(unit) = 0 \/ ~more.ok THEN ParseError
            ELSE [ok |-> TRUE, ms |-> Number(SubSeq(str, 1, n)) * UnitMs(unit) + more.ms]

\* time.ParseDuration: [-+]?([0-9]*[a-z]+)+, and "0" without a unit.
ParseDuration(str) ==
    LET neg == str # <<>> /\ Head(str) = "-"
        body == IF neg THEN Tail(str) ELSE str
        groups == ParseGroups(body)
    IN IF body = <<"0">> THEN [ok |-> TRUE, ms |-> 0]
       ELSE IF body = <<>> THEN ParseError
       ELSE IF neg /\ groups.ok THEN [ok |-> TRUE, ms |-> 0 - groups.ms]
       ELSE groups

\* getEnv("WATCH_INTERVAL", "60s"): an empty value is the default.
getEnv(value) == IF value # <<>> THEN value ELSE <<"6", "0", "s">>

\* loadConfig: the watch interval in milliseconds.
loadConfig(value) ==
    LET parsed == ParseDuration(getEnv(value))
    IN IF ~parsed.ok THEN 60000 ELSE parsed.ms

\* main: loadConfig; the watcher is made with config.WatchInterval.
CallLoadConfig ==
    /\ lastCall = NoCall
    /\ \E value \in Settings :
          lastCall' = [fn |-> "loadConfig", arg |-> value,
                       out |-> [interval |-> loadConfig(value), loop |-> "idle"]]
    /\ UNCHANGED <<storeVars, gitVars, dockerVars, runs, scanVars, hs, lifeVars>>

Looping(loop) == lastCall.fn = "loadConfig" /\ lastCall.out.loop = loop

\* Watcher.run: time.NewTicker(w.interval), which panics for an interval
\* that is not positive; then the first checkAll.
RunTicker ==
    /\ Looping("idle")
    /\ lastCall' = [lastCall EXCEPT !.out.loop = IF lastCall.out.interval <= 0
                                                 THEN "panicked" ELSE "scanning"]
    /\ UNCHANGED <<storeVars, gitVars, dockerVars, runs, scanVars, hs, lifeVars>>

\* Watcher.run: checkAll returns, the loop waits for the ticker.
RunSelect ==
    /\ Looping("scanning")
    /\ lastCall' = [lastCall EXCEPT !.out.loop = "waiting"]
    /\ UNCHANGED <<storeVars, gitVars, dockerVars, runs, scanVars, hs, lifeVars>>

\* Watcher.run: the ticker fires, checkAll.
RunTick ==
    /\ Looping("waiting")
    /\ lastCall' = [lastCall EXCEPT !.out.loop = "scanning"]
    /\ UNCHANGED <<storeVars, gitVars, dockerVars, runs, scanVars, hs, lifeVars>>

NextConfig == CallLoadConfig \/ RunTicker \/ RunSelect \/ RunTick

SpecConfig == Init /\ [][NextConfig]_vars

(***************************************************************************)
(* Client.WaitForHealthy on one container whose state the runtime changes  *)
(* while the wait polls it.                                                *)
(***************************************************************************)
\* The longest timeout a caller passes, in sleeps of 500 ms.
MaxTimeout == 3

\* The states the runtime reports for a container.
ContainerStatuses == {"created", "running", "restarting", "exited", "dead"}

\* The call of WaitForHealthy in progress: its position in the loop, the
\* time since its start in sleeps of 500 ms, what its polls have seen and,
\* at the end, the error it returns ("" for nil).
Waiting == lastCall.fn = "WaitForHealthy"
WaitAt(pc) == Waiting /\ lastCall.out.pc = pc

\* WaitForHealthy is called: deadline := time.Now().Add(timeout).
WaitStart ==
    /\ lastCall = NoCall
    /\ \E timeout \in 0..MaxTimeout :
          lastCall' = [fn |-> "WaitForHealthy",
                       arg |-> [cid |-> 1, timeout |-> timeout],
                       out |-> [pc |-> "test", now |-> 0, seen |-> <<>>, err |-> ""]]
    /\ UNCHANGED <<storeVars, gitVars, dockerVars, runs, scanVars, hs, lifeVars>>

\* The loop condition time.Now().Before(deadline); after the loop the
\* timeout error is returned.
WaitTest ==
    /\ WaitAt("test")
    /\ lastCall' = IF lastCall.out.now < lastCall.arg.timeout
                   THEN [lastCall EXCEPT !.out.pc = "poll"]
                   ELSE [lastCall EXCEPT !.out.pc = "done",
                                         !.out.err = "timeout waiting for container to be healthy"]
    /\ UNCHANGED <<storeVars, gitVars, dockerVars, runs, scanVars, hs, lifeVars>>

\* Mutant: a container that is not found counts as one that exited.
WaitPoll_NotFoundExits ==
    /\ WaitAt("poll")
    /\ \E inspected \in BOOLEAN, took \in {0, 1} :
          LET status == GetContainerStatus(lastCall.arg.cid)
              now == lastCall.out.now + took
          IN lastCall' =
               IF ~inspected
               THEN [lastCall EXCEPT !.out.pc = "done", !.out.now = now,
                                     !.out.seen = Append(@, "inspect failed"),
                                     !.out.err = "failed to inspect container"]
               ELSE IF status = "running"
               THEN [lastCall EXCEPT !.out.pc = "done", !.out.now = now,
                                     !.out.seen = Append(@, status)]
               ELSE IF status \in {"exited", "dead", "not_found"}
               THEN [lastCall EXCEPT !.out.pc = "done", !.out.now = now,
                                     !.out.seen = Append(@, status),
                                     !.out.err = "container exited unexpectedly"]
               ELSE [lastCall EXCEPT !.out.pc = "sleep", !.out.now = now,
                                     !.out.seen = Append(@, status)]
    /\ UNCHANGED <<storeVars, gitVars, dockerVars, runs, scanVars, hs, lifeVars>>

\* One poll: GetContainerStatus (an inspect error other than "No such
\* container" is returned as it is), then the tests of the status.
WaitPoll ==
    /\ WaitAt("poll")
    /\ \E inspected \in BOOLEAN, took \in {0, 1} :
          LET status == GetContainerStatus(lastCall.arg.cid)
              now == lastCall.out.now + took
          IN lastCall' =
               IF ~inspected
               THEN [lastCall EXCEPT !.out.pc = "done", !.out.now = now,
                                     !.out.seen = Append(@, "inspect failed"),
                                     !.out.err = "failed to inspect container"]
               ELSE IF status = "running"
               THEN [lastCall EXCEPT !.out.pc = "done", !.out.now = now,
                                     !.out.seen = Append(@, status)]
               ELSE IF status \in {"exited", "dead"}
               THEN [lastCall EXCEPT !.out.pc = "done", !.out.now = now,
                                     !.out.seen = Append(@, status),
                                     !.out.err = "container exited unexpectedly"]
               ELSE [lastCall EXCEPT !.out.pc = "sleep", !.out.now = now,
                                     !.out.seen = Append(@, status)]
    /\ UNCHANGED <<storeVars, gitVars, dockerVars, runs, scanVars, hs, lifeVars>>

\* time.Sleep(500 * time.Millisecond): at least one sleep of time passes.
WaitSleep ==
    /\ WaitAt("sleep")
    /\ \E slept \in {1, 2} :
          lastCall' = [lastCall EXCEPT !.out.pc = "test", !.out.now = @ + slept]
    /\ UNCHANGED <<storeVars, gitVars, dockerVars, runs, scanVars, hs, lifeVars>>

\* A step of the wait.
WaitStep == WaitTest \/ WaitPoll \/ WaitSleep

\* The runtime changes the state of the container, or the container is
\* removed, while the wait is under way.
RuntimeChanges ==
    /\ Waiting /\ ~WaitAt("done")
    /\ \E c \in containers :
          \/ \E st \in ContainerStatuses \ {c.state} :
                containers' = (containers \ {c}) \cup {[c EXCEPT !.state = st]}
          \/ containers' = containers \ {c}
    /\ UNCHANGED <<storeVars, gitVars, nextCid, stacks, runs, scanVars, hs, lifeVars, lastCall>>

\* RunContainer has created and started the container of project 1.
InitHealth ==
    /\ store = (1 :> [NoProject EXCEPT !.id = 1, !.name = "a", !.image = "img",
                                      !.status = StatusDeploying])
    /\ nextID = 2
    /\ repos = [n \in Names |-> 0]
    /\ derived = {}
    /\ remoteHead = 1
    /\ containers \in {{[id |-> 1, name |-> ContainerName("a"), project |-> 1,
                         state |-> st]} : st \in {"created", "running", "exited"}}
    /\ nextCid = 2
    /\ stacks = {}
    /\ runs = [r \in RunIDs |-> IdleRun]
    /\ wpc = "idle"
    /\ wlist = <<>>
    /\ widx = 0
    /\ wnew = 0
    /\ wtrace = <<>>
    /\ hs = [h \in HandlerIDs |-> IdleHandler]
    /\ LifeIdle

NextHealth == WaitStart \/ WaitStep \/ RuntimeChanges

\* The goroutine that called WaitForHealthy keeps running, and every
\* inspect call returns.
SpecHealth == InitHealth /\ [][NextHealth]_vars /\ WF_vars(WaitStep)

(***************************************************************************)
(* One project with a source URL, deployed by two requests at a time and   *)
(* by the watcher.                                                         *)
(***************************************************************************)
\* Every deploy request runs deployProject in a goroutine of its own.
RerunIDs == ManualRuns \cup {"again"}

\* The forms of the scenario: a compose project tracked by the watcher.
RerunForms ==
    {f \in SoloForms : f.gitURL # "" /\ f.autoDeploy /\ f.deployType = DeployTypeCompose}

\* A step of a deploy run of a compose project, or of its caller.
ComposeRunStep(r) ==
    \/ DeployMark(r)
    \/ DeploySync(r)
    \/ DeployCommit(r)
    \/ DeployComposeUp(r)
    \/ DeployWriteHandles(r)
    \/ DeployWriteRunning(r)
    \/ DeployFailed(r)

InitRerun ==
    /\ store = <<>>
    /\ nextID = 1
    /\ repos = [n \in Names |-> 0]
    /\ derived = {}
    /\ remoteHead = 1
    /\ containers = {}
    /\ nextCid = 1
    /\ stacks = {}
    /\ runs = [r \in RunIDs \cup RerunIDs |-> IdleRun]
    /\ wpc = "idle"
    /\ wlist = <<>>
    /\ widx = 0
    /\ wnew = 0
    /\ wtrace = <<>>
    /\ hs = [h \in HandlerIDs |-> IdleHandler]
    /\ LifeIdle

NextRerun ==
    \/ \E h \in HandlerIDs, form \in RerunForms : store = <<>> /\ CreateProject(h, form)
    \/ \E h \in HandlerIDs : CreateInsert(h)
    \/ \E r \in RerunIDs, id \in ProjectIDs : Deploy(r, id)
    \/ \E r \in RunIDs \cup RerunIDs : ComposeRunStep(r)
    \/ WatcherStep
    \/ RemotePush

SpecRerun == InitRerun /\ [][NextRerun]_vars

(***************************************************************************)
(* The calls of ProjectRepository on stores of up to two projects.         *)
(***************************************************************************)
\* ProjectRepository.Update: every column of the row; no row affected is
\* the error "project not found", a name that another row has fails the
\* statement.
Update(s, p) ==
    IF p.id \in DOMAIN s /\ \A i \in DOMAIN s \ {p.id} : s[i].name # p.name
    THEN [s EXCEPT ![p.id] = p]
    ELSE s

StoreOps ==
    {"GetByID", "GetByName", "Update", "UpdateStatus", "UpdateLastCommit",
     "UpdateContainerIDs", "Delete"}

\* The error a call returns, "" for nil.  UpdateStatus, UpdateLastCommit and
\* UpdateContainerIDs return the error of the statement only; GetByID and
\* GetByName return (nil, nil) for sql.ErrNoRows.
StoreErr(s, op, p) ==
    CASE op = "Update" ->
            IF p.id \notin DOMAIN s THEN "project not found"
            ELSE IF \E i \in DOMAIN s \ {p.id} : s[i].name = p.name
                 THEN "failed to update project" ELSE ""
      [] op = "Delete" -> IF p.id \in DOMAIN s THEN "" ELSE "project not found"
      [] OTHER -> ""

\* The store after a call with the project p as its argument.
StoreAfter(s, op, p) ==
    CASE op = "Update" -> Update(s, p)
      [] op = "UpdateStatus" -> UpdateStatus(s, p.id, p.status, p.statusMsg)
      [] op = "UpdateLastCommit" -> UpdateLastCommit(s, p.id, p.lastCommit)
      [] op = "UpdateContainerIDs" -> UpdateContainerIDs(s, p.id, p.containerIDs)
      [] op = "Delete" -> Delete(s, p.id)
      [] OTHER -> s

\* The arguments of the calls: an id, a name and the values to write.
StoreArgs ==
    {[NoProject EXCEPT !.id = id, !.name = n, !.status = StatusStopped, !.lastCommit = 1,
                       !.containerIDs = <<1>>] : id \in ProjectIDs, n \in Names}

\* One call of the repository by a handler.
StoreCall(h, op, p) ==
    /\ store' = StoreAfter(store, op, p)
    /\ hs' = [hs EXCEPT ![h] =
                [IdleHandler EXCEPT !.op = op, !.pc = "returned", !.proj = p,
                                    !.err = StoreErr(store, op, p),
                                    !.res = CASE op = "GetByID" -> GetByID(p.id)
                                              [] op = "GetByName" -> GetByName(p.name)
                                              [] OTHER -> NoProject]]
    /\ UNCHANGED <<nextID, gitVars, dockerVars, runs, scanVars, lifeVars, lastCall>>

\* The stores of the scenario: any of the two projects, with different names.
InitStores ==
    LET Rows(id) == {[NoProject EXCEPT !.id = id, !.name = n, !.status = st] :
                        n \in Names, st \in {StatusPending, StatusRunning}}
    IN {s \in UNION {[S -> UNION {Rows(id) : id \in ProjectIDs}] : S \in SUBSET ProjectIDs} :
          /\ \A i \in DOMAIN s : s[i].id = i
          /\ \A i, j \in DOMAIN s : i # j => s[i].name # s[j].name}

InitStore ==
    /\ store \in InitStores
    /\ nextID = MaxProjects + 1
    /\ repos = [n \in Names |-> 0]
    /\ derived = {}
    /\ remoteHead = 1
    /\ containers = {}
    /\ nextCid = 1
    /\ stacks = {}
    /\ runs = [r \in RunIDs |-> IdleRun]
    /\ wpc = "idle"
    /\ wlist = <<>>
    /\ widx = 0
    /\ wnew = 0
    /\ wtrace = <<>>
    /\ hs = [h \in HandlerIDs |-> IdleHandler]
    /\ LifeIdle

NextStore == \E h \in HandlerIDs, op \in StoreOps, p \in StoreArgs : StoreCall(h, op, p)

SpecStore == InitStore /\ [][NextStore]_vars

(***************************************************************************)
(* Create and edit requests served concurrently.                           *)
(***************************************************************************)
\* The server runs every request in a goroutine of its own: two at a time.
RaceHandlerIDs == {"h1", "h2"}

InitNames ==
    /\ store = <<>>
    /\ nextID = 1
    /\ repos = [n \in Names |-> 0]
    /\ derived = {}
    /\ remoteHead = 1
    /\ containers = {}
    /\ nextCid = 1
    /\ stacks = {}
    /\ runs = [r \in RunIDs |-> IdleRun]
    /\ wpc = "idle"
    /\ wlist = <<>>
    /\ widx = 0
    /\ wnew = 0
    /\ wtrace = <<>>
    /\ hs = [h \in RaceHandlerIDs |-> IdleHandler]
    /\ LifeIdle

\* The create requests under way.
Inserting == {h \in DOMAIN hs : hs[h].op = "create"}

NextNames ==
    \/ \E h \in RaceHandlerIDs, form \in Forms :
          nextID + Cardinality(Inserting) <= MaxProjects /\ CreateProject(h, form)
    \/ \E h \in RaceHandlerIDs : CreateInsert(h)
    \/ \E h \in RaceHandlerIDs, id \in ProjectIDs : UpdateProject(h, id)
    \/ \E h \in RaceHandlerIDs, form \in Forms : UpdateSave(h, form)

SpecNames == InitNames /\ [][NextNames]_vars

(***************************************************************************)
(* Delete, stop and restart requests on two deployed projects.             *)
(***************************************************************************)
\* Project 1 is an image project that was created as "a", deployed, renamed
\* to "b" and deployed again: the container of the first deploy still
\* carries the project's label.  Project 2 is a compose project created as
\* "a" after the rename and deployed from its checkout.
InitDelete ==
    /\ store = (1 :> [NoProject EXCEPT !.id = 1, !.name = "b", !.image = "img",
                                      !.status = StatusRunning, !.containerIDs = <<2>>])
            @@ (2 :> [NoProject EXCEPT !.id = 2, !.name = "a", !.gitURL = "url",
                                      !.deployType = DeployTypeCompose,
                                      !.lastCommit = 1, !.status = StatusRunning])
    /\ nextID = 3
    /\ repos = [n \in Names |-> IF n = "a" THEN 1 ELSE 0]
    /\ derived = {"a"}
    /\ remoteHead = 1
    /\ containers = {[id |-> 1, name |-> ContainerName("a"), project |-> 1, state |-> "running"],
                     [id |-> 2, name |-> ContainerName("b"), project |-> 1, state |-> "running"]}
    /\ nextCid = 3
    /\ stacks = {"a"}
    /\ runs = [r \in RunIDs |-> IdleRun]
    /\ wpc = "idle"
    /\ wlist = <<>>
    /\ widx = 0
    /\ wnew = 0
    /\ wtrace = <<>>
    /\ hs = [h \in HandlerIDs |-> IdleHandler]
    /\ LifeIdle

NextDelete ==
    \/ \E h \in HandlerIDs : DeleteStep(h)
    \/ \E h \in HandlerIDs : StopStep(h)
    \/ \E h \in HandlerIDs : RestartStep(h)

SpecDelete == InitDelete /\ [][NextDelete]_vars

(***************************************************************************)
(* Stop and restart requests on two deployed projects, with a store that   *)
(* may be unavailable when a status is written.                            *)
(***************************************************************************)
NextFaults ==
    \/ \E h \in HandlerIDs : StopStep(h)
    \/ \E h \in HandlerIDs : RestartStep(h)
    \/ \E h \in HandlerIDs : StatusWriteFails(h)

SpecFaults == InitDelete /\ [][NextFaults]_vars

(***************************************************************************)
(* One project, with deploy requests and delete requests.                  *)
(***************************************************************************)
NextDeleteRun ==
    \/ \E h \in HandlerIDs : CreateSolo(h)
    \/ \E h \in HandlerIDs : DeleteStep(h)
    \/ \E r \in ManualRuns, id \in ProjectIDs : Deploy(r, id)
    \/ \E r \in ManualRuns : RunStep(r)

SpecDeleteRun == Init /\ [][NextDeleteRun]_vars

(***************************************************************************)
(* The scan over two deployed auto-deploy projects.                        *)
(***************************************************************************)
\* Project 1 is an image project, project 2 a compose project; both track
\* the remote branch and have been deployed at its first commit.
InitScan ==
    /\ store = (1 :> [NoProject EXCEPT !.id = 1, !.name = "a", !.gitURL = "url",
                                      !.image = "img", !.autoDeploy = TRUE, !.lastCommit = 1,
                                      !.status = StatusRunning, !.containerIDs = <<1>>])
            @@ (2 :> [NoProject EXCEPT !.id = 2, !.name = "b", !.gitURL = "url",
                                      !.deployType = DeployTypeCompose, !.autoDeploy = TRUE,
                                      !.lastCommit = 1, !.status = StatusRunning])
    /\ nextID = 3
    /\ repos = [n \in Names |-> 1]
    /\ derived = {"b"}
    /\ remoteHead = 1
    /\ containers = {[id |-> 1, name |-> ContainerName("a"), project |-> 1, state |-> "running"]}
    /\ nextCid = 2
    /\ stacks = {"b"}
    /\ runs = [r \in RunIDs |-> IdleRun]
    /\ wpc = "idle"
    /\ wlist = <<>>
    /\ widx = 0
    /\ wnew = 0
    /\ wtrace = <<>>
    /\ hs = [h \in HandlerIDs |-> IdleHandler]
    /\ LifeIdle

NextScan ==
    \/ WatcherStep
    \/ PipelineStep(WatcherRun)
    \/ RemotePush

SpecScan == InitScan /\ [][NextScan]_vars

\* The ticker of run() keeps firing and the goroutine of the scan, with the
\* deploy it calls, keeps being scheduled.
SpecScanFair ==
    InitScan /\ [][NextScan]_vars /\ WF_vars(WatcherStep) /\ WF_vars(PipelineStep(WatcherRun))

(***************************************************************************)
(* The scan over two deployed auto-deploy projects, with stop requests and *)
(* no deploy or restart request.                                           *)
(***************************************************************************)
NextStopScan ==
    \/ WatcherStep
    \/ PipelineStep(WatcherRun)
    \/ RemotePush
    \/ \E h \in HandlerIDs : StopStep(h)

SpecStopScan == InitScan /\ [][NextStopScan]_vars

(***************************************************************************)
(* The watcher's lifecycle: Watcher.Start, Watcher.Stop, Watcher.run.      *)
(***************************************************************************)
Alive == {l \in DOMAIN loops : loops[l].pc # "exited"}

\* Watcher.Start up to the unlock: the guard, running = true, a new stopCh.
WatcherStart(c) ==
    /\ callers[c] = "idle"
    /\ IF wrunning
       THEN UNCHANGED <<wrunning, wstopCh, wnextCh, callers>>
       ELSE /\ Len(loops) + Cardinality({d \in CallerIDs : callers[d] = "spawn"}) < MaxStarts
            /\ wrunning' = TRUE
            /\ wstopCh' = wnextCh
            /\ wnextCh' = wnextCh + 1
            /\ callers' = [callers EXCEPT ![c] = "spawn"]
    /\ UNCHANGED <<storeVars, gitVars, dockerVars, runs, scanVars, hs, lastCall, wclosed, wwg, loops>>

\* Watcher.Start after the unlock: wg.Add(1); go w.run().
WatcherSpawn(c) ==
    /\ callers[c] = "spawn"
    /\ wwg' = wwg + 1
    /\ loops' = Append(loops, [pc |-> "scan", ch |-> wstopCh])
    /\ callers' = [callers EXCEPT ![c] = "idle"]
    /\ UNCHANGED <<storeVars, gitVars, dockerVars, runs, scanVars, hs, lastCall,
                   wrunning, wstopCh, wclosed, wnextCh>>

\* Watcher.Stop up to the unlock: the guard, running = false, close(stopCh).
WatcherStop(c) ==
    /\ callers[c] = "idle"
    /\ IF ~wrunning
       THEN UNCHANGED <<wrunning, wclosed, callers>>
       ELSE /\ wrunning' = FALSE
            /\ wclosed' = wclosed \cup {wstopCh}
            /\ callers' = [callers EXCEPT ![c] = "wait"]
    /\ UNCHANGED <<storeVars, gitVars, dockerVars, runs, scanVars, hs, lastCall,
                   wstopCh, wwg, wnextCh, loops>>

\* Watcher.Stop: wg.Wait() returns when the counter is zero.
WatcherStopReturns(c) ==
    /\ callers[c] = "wait"
    /\ wwg = 0
    /\ callers' = [callers EXCEPT ![c] = "idle"]
    /\ UNCHANGED <<storeVars, gitVars, dockerVars, runs, scanVars, hs, lastCall,
                   wrunning, wstopCh, wclosed, wwg, wnextCh, loops>>

\* run(): a checkAll, at the start or after a tick, returns.
LoopScan(l) ==
    /\ loops[l].pc = "scan"
    /\ loops' = [loops EXCEPT ![l].pc = "select"]
    /\ UNCHANGED <<storeVars, gitVars, dockerVars, runs, scanVars, hs, lastCall,
                   wrunning, wstopCh, wclosed, wwg, wnextCh, callers>>

\* run(): the select.  The field w.stopCh is read without the mutex that
\* Start holds when writing it: the read yields the channel the field held
\* when the goroutine was started or the one it holds now.
LoopSelect(l) ==
    /\ loops[l].pc = "select"
    /\ \/ \* case <-ticker.C
          /\ loops' = [loops EXCEPT ![l].pc = "scan"]
          /\ wwg' = wwg
       \/ \* case <-w.stopCh: return, and the deferred wg.Done()
          /\ \E ch \in {loops[l].ch, wstopCh} : ch \in wclosed
          /\ loops' = [loops EXCEPT ![l].pc = "exited"]
          /\ wwg' = wwg - 1
    /\ UNCHANGED <<storeVars, gitVars, dockerVars, runs, scanVars, hs, lastCall,
                   wrunning, wstopCh, wclosed, wnextCh, callers>>

NextLife ==
    \/ \E c \in CallerIDs : WatcherStart(c)
    \/ \E c \in CallerIDs : WatcherSpawn(c)
    \/ \E c \in CallerIDs : WatcherStop(c)
    \/ \E c \in CallerIDs : WatcherStopReturns(c)
    \/ \E l \in DOMAIN loops : LoopScan(l)
    \/ \E l \in DOMAIN loops : LoopSelect(l)

SpecLife == Init /\ [][NextLife]_vars

(***************************************************************************)
(* Properties of the deploy pipeline.                                      *)
(***************************************************************************)
\* The pipeline step that fails with the given message.
FailedStep(err) ==
    CASE err \in {"failed to pull repository", "failed to clone repository"} -> "sync"
      [] err = "docker compose up failed" -> "up"
      [] err = "failed to pull image" -> "pullimg"
      [] err = "failed to run container" -> "run"
      [] err = "container health check failed" -> "health"
      [] OTHER -> "none"

\* C1: every deploy run that starts, manual or watcher-triggered, eventually
\* finishes, and the step that finishes it leaves the persisted status of its
\* project at running or error, never at deploying.
C1_RunEndsRunningOrError ==
    /\ [][\A r \in RunIDs :
            (runs[r].pc # "idle" /\ runs'[r].pc = "idle") =>
                (runs[r].proj.id \in DOMAIN store' =>
                    store'[runs[r].proj.id].status \in {StatusRunning, StatusError})]_vars
    /\ \A r \in RunIDs : (runs[r].pc # "idle") ~> (runs[r].pc = "idle")

\* A watcher-triggered run has failed and returned; the status is error.
C1_Witness ==
    /\ runs[WatcherRun].pc = "idle"
    /\ \E i \in DOMAIN wtrace :
          /\ "Deploy:failed" \in Range(wtrace[i].calls)
          /\ GetByID(wtrace[i].id).status = StatusError

\* C2: when a step of the pipeline fails, the run executes no later step (the
\* failing step is the last one it ran; after a failed source sync nothing but
\* the sync has run), and the only thing the run still does is to write status
\* error with the failing step's message: the runtime, the checkouts and the
\* handle list are left as they are.
C2_FailureSkipsRest ==
    /\ [](\A r \in RunIDs :
            runs[r].err # "" =>
                /\ runs[r].pc = "failed"
                /\ Last(runs[r].log) = FailedStep(runs[r].err)
                /\ FailedStep(runs[r].err) = "sync" => runs[r].log = <<"sync">>)
    /\ [][\A r \in RunIDs :
            (runs[r].pc = "failed" /\ runs'[r] # runs[r]) =>
                /\ runs'[r] = IdleRun
                /\ store' = UpdateStatus(store, runs[r].proj.id, StatusError, runs[r].err)
                /\ UNCHANGED <<gitVars, dockerVars>>]_vars

\* A deploy of a project with a checkout has failed at the pull; the status
\* is error with the pull's message.
C2_Witness ==
    /\ \A r \in RunIDs : runs[r].pc = "idle"
    /\ \E id \in DOMAIN store :
          /\ store[id].status = StatusError
          /\ store[id].statusMsg = "failed to pull repository"

\* C3: a run that succeeds writes the handle list, the id of the container it
\* created for an image project and the empty list for a compose project, and
\* after that, as its last step, status running with an empty message.
C3_HandlesThenRunning ==
    [][\A r \in RunIDs :
          LET p == runs[r].proj IN
          /\ (runs[r].pc = "handles" /\ runs'[r] # runs[r]) =>
                /\ runs'[r].pc = "status"
                /\ p.deployType = DeployTypeImage =>
                      /\ "run" \in Range(runs[r].log)
                      /\ runs[r].cid \in 1..(nextCid - 1)
                /\ p.id \in DOMAIN store =>
                      store'[p.id].containerIDs =
                          IF p.deployType = DeployTypeCompose THEN <<>> ELSE <<runs[r].cid>>
          /\ (runs[r].pc \notin {"idle", "failed"} /\ runs'[r].pc = "idle") =>
                /\ runs[r].pc = "status"
                /\ Last(runs[r].log) = "handles"
                /\ p.id \in DOMAIN store =>
                      /\ store'[p.id].status = StatusRunning
                      /\ store'[p.id].statusMsg = ""]_vars

\* An image project is running with the handle of a container that exists.
C3_Witness ==
    \E id \in DOMAIN store :
        /\ store[id].status = StatusRunning
        /\ store[id].statusMsg = ""
        /\ Len(store[id].containerIDs) = 1
        /\ GetContainerStatus(store[id].containerIDs[1]) = "running"

\* C4: a run that is past its start, manual or watcher-triggered, has had the
\* status of its project set to deploying by its trigger.
C4_DeployingBeforeFirstStep ==
    \A r \in RunIDs : runs[r].pc \notin {"idle", "mark"} => runs[r].marked

(***************************************************************************)
(* Properties of the watcher's scan.                                       *)
(***************************************************************************)
\* The step of checkProject that takes up the project at wlist[widx].
TakesUp == wpc = "check" /\ Len(wtrace') = Len(wtrace) + 1

\* The handling of the i-th listed project has ended.
Handled(i) == i \in DOMAIN wtrace /\ (i < Len(wtrace) \/ wpc \in {"check", "end"})

\* The calls of a handling that the watcher makes itself, and those made by
\* the deploy run it starts.
RECURSIVE OwnCalls(_)
OwnCalls(calls) ==
    IF calls = <<>> THEN <<>>
    ELSE IF Head(calls) \in {"Deploy.Pull", "Deploy.Pull:failed", "Deploy.UpdateLastCommit",
                             "Deploy:failed"}
         THEN OwnCalls(Tail(calls))
         ELSE <<Head(calls)>> \o OwnCalls(Tail(calls))

RECURSIVE Count(_, _)
Count(calls, S) ==
    IF calls = <<>> THEN 0
    ELSE (IF Head(calls) \in S THEN 1 ELSE 0) + Count(Tail(calls), S)

C7_ExactlyOnePullCommitDeploy ==
    \A i \in DOMAIN wtrace :
        (Handled(i) /\ wtrace[i].due
           /\ Range(wtrace[i].calls) \cap
                 {"HasUpdate:failed", "Pull:failed", "Deploy.Pull:failed", "Deploy:failed"} = {}) =>
            /\ Count(wtrace[i].calls, {"Pull", "Deploy.Pull"}) = 1
            /\ Count(wtrace[i].calls, {"UpdateLastCommit", "Deploy.UpdateLastCommit"}) = 1
            /\ Count(wtrace[i].calls, {"Deploy"}) = 1

\* C7: a handling whose update check succeeds and finds the HEAD of the
\* checkout different from the remote tip makes, by the watcher itself, one
\* Pull and, if the Pull succeeds, one UpdateLastCommit and one Deploy call in
\* that order (none of the two if the Pull fails); the deploy run then pulls
\* again and, if that succeeds, writes the last commit again.  A handling
\* whose update check fails or finds no difference makes no further call.
C7_WatcherCallsInOrder ==
    \A i \in DOMAIN wtrace :
        LET calls == wtrace[i].calls
            own == OwnCalls(calls)
        IN
        /\ (calls # <<>> /\ Head(calls) # "HasUpdate:true") => Len(calls) = 1
        /\ (Handled(i) /\ calls # <<>> /\ Head(calls) = "HasUpdate:true") =>
              /\ own \in {<<"HasUpdate:true", "Pull:failed">>,
                           <<"HasUpdate:true", "Pull", "UpdateLastCommit", "Deploy">>}
              /\ "Deploy" \in Range(calls) =>
                    \/ SubSeq(calls, 5, 6) = <<"Deploy.Pull", "Deploy.UpdateLastCommit">>
                    \/ SubSeq(calls, 5, 6) = <<"Deploy.Pull:failed", "Deploy:failed">>

\* A handling has run to the end of a successful deploy: the watcher's Pull,
\* UpdateLastCommit and Deploy, and the deploy run's own Pull and
\* UpdateLastCommit.
C7_Witness ==
    \E i \in DOMAIN wtrace :
        /\ Handled(i)
        /\ wtrace[i].calls = <<"HasUpdate:true", "Pull", "UpdateLastCommit", "Deploy",
                                "Deploy.Pull", "Deploy.UpdateLastCommit">>
        /\ GetByID(wtrace[i].id).status = StatusRunning

\* C8: in a scan, every project that ListAutoDeployEnabled returned is taken
\* up by checkProject, in the order listed, whatever failed in the handling
\* of the projects before it; when the scan ends, all of them have been.
C8_ScanChecksEveryListed ==
    /\ Len(wtrace) <= Len(wlist)
    /\ \A i \in DOMAIN wtrace : wtrace[i].id = wlist[i].id
    /\ wpc \in {"pull", "commit", "deploy"} => Len(wtrace) = widx
    /\ wpc = "end" => Len(wtrace) = Len(wlist)

\* A scan over two projects has ended; the handling of the first listed
\* project failed and the second one was checked for updates afterwards.
C8_Witness ==
    /\ wpc = "end"
    /\ Len(wlist) = 2
    /\ Range(wtrace[1].calls) \cap {"HasUpdate:failed", "Pull:failed", "Deploy:failed"} # {}
    /\ wtrace[2].calls # <<>>

(***************************************************************************)
(* Properties of the watcher's lifecycle.                                  *)
(***************************************************************************)
\* C9: at most one run() goroutine is alive.
C9_AtMostOneLoop == Cardinality(Alive) <= 1

(***************************************************************************)
(* Properties of the store and of the request handlers.                    *)
(***************************************************************************)
\* C5: the status of every row is one of the five values, and a row that
\* appears in the store appears with status pending.
C5_StatusOfFive ==
    /\ [](\A id \in DOMAIN store : store[id].status \in ProjectStatus)
    /\ [][\A id \in DOMAIN store' \ DOMAIN store : store'[id].status = StatusPending]_vars

\* The create request has returned and its project is pending.
C5_Witness ==
    /\ \A h \in HandlerIDs : hs[h].pc = "idle"
    /\ \A r \in RunIDs : runs[r].pc = "idle"
    /\ \E id \in DOMAIN store : store[id].status = StatusPending

\* C10: a stop request first attempts the tear-down through the adapter of
\* the project's deploy type (the compose adapter leaves the containers alone,
\* the image adapter the compose stacks), writing nothing to the store, and
\* then, whether or not the tear-down failed, writes status stopped with an
\* empty message.
C10_TearDownThenStopped ==
    [][\A h \in HandlerIDs :
          (hs[h].op = "stop" /\ hs'[h] # hs[h]) =>
              LET p == hs[h].proj IN
              /\ hs[h].pc = "teardown" =>
                    /\ hs'[h].pc = "write"
                    /\ store' = store
                    /\ hs'[h].adapter = p.deployType
                    /\ IF p.deployType = DeployTypeCompose
                       THEN containers' = containers
                       ELSE stacks' = stacks
              /\ hs[h].pc = "write" =>
                    /\ hs'[h].pc = "done"
                    /\ hs[h].adapter = p.deployType
                    /\ dockerVars' = dockerVars
                    /\ p.id \in DOMAIN store =>
                          /\ store'[p.id].status = StatusStopped
                          /\ store'[p.id].statusMsg = ""]_vars

\* A stop request whose tear-down failed has written status stopped.
C10_Witness ==
    \E h \in HandlerIDs :
        /\ hs[h].op = "stop" /\ hs[h].pc = "done" /\ hs[h].failed
        /\ GetByID(hs[h].proj.id).status = StatusStopped
        /\ GetByID(hs[h].proj.id).statusMsg = ""


(***************************************************************************)
(* Properties of Restart and Delete.                                       *)
(***************************************************************************)
\* C11: Restart on a project of either kind, from any previous status: when
\* the adapter's restart succeeded the status write sets running with an
\* empty message, and when it failed (image: the restart of any container of
\* the project failed) the status write sets error with the failure message.
C11_RestartStatusFollowsAdapter ==
    [][\A h \in HandlerIDs :
          (hs[h].op = "restart" /\ hs[h].pc = "write" /\ hs'[h].pc = "done"
              /\ hs[h].proj.id \in DOMAIN store')
          => LET p == store'[hs[h].proj.id] IN
             IF hs[h].failed
             THEN p.status = StatusError /\ p.statusMsg = hs[h].err
             ELSE p.status = StatusRunning /\ p.statusMsg = ""]_vars


\* C12: Delete on an existing project performs the runtime tear-down, then
\* the removal of the local checkout, then the removal of the row: a row
\* leaves the store only in the third step of a delete request for it, after
\* its tear-down and its checkout removal, and a request that found the
\* project ends only after the row is gone, whether or not the tear-down or
\* the checkout removal failed.
C12_DeleteOrderBestEffort ==
    [][/\ \A id \in DOMAIN store \ DOMAIN store' :
            \E h \in HandlerIDs :
               /\ hs[h].op = "delete" /\ hs[h].proj.id = id
               /\ Len(hs[h].steps) = 2
               /\ hs[h].steps[1] \in {"teardown", "teardown:failed"}
               /\ hs[h].steps[2] \in {"checkout", "checkout:failed"}
       /\ \A h \in HandlerIDs :
            (hs[h].op = "delete" /\ hs[h].err # "not found" /\ hs'[h].op # "delete")
            => /\ hs[h].proj.id \notin DOMAIN store
               /\ Len(hs[h].steps) = 3 /\ hs[h].steps[3] = "record"]_vars

\* A delete request whose tear-down and checkout removal both failed has
\* removed the row.
C12_Witness ==
    \E h \in HandlerIDs :
       /\ hs[h].op = "delete" /\ hs[h].pc = "done"
       /\ hs[h].steps = <<"teardown:failed", "checkout:failed", "record">>
       /\ hs[h].proj.id \notin DOMAIN store


\* C13: when a delete request removes the row of an image project, no
\* container labelled with the project is left (each was removed or was
\* already absent); and a delete request for a project whose row is already
\* gone answers not found and changes neither the runtime nor the checkouts
\* nor any row.
C13_BothHandlesGoneThenNotFound ==
    [][/\ \A id \in DOMAIN store \ DOMAIN store' :
            store[id].deployType = DeployTypeImage => ListProjectContainers(id) = {}
       /\ \A h \in HandlerIDs :
            (hs'[h].op = "delete" /\ hs'[h].proj.id \notin DOMAIN store /\ hs'[h].proj.id < nextID)
            => /\ hs'[h].err \in {"not found", "project not found"}
               /\ hs'[h].steps \in {<<>>, <<"teardown", "checkout", "record">>,
                                          <<"teardown:failed", "checkout", "record">>,
                                          <<"teardown", "checkout:failed", "record">>,
                                          <<"teardown:failed", "checkout:failed", "record">>}
               /\ hs[h].op # "delete" => UNCHANGED <<store, repos, derived, containers, stacks>>]_vars


(***************************************************************************)
(* Properties of the handle list and of the bring-up.                      *)
(***************************************************************************)
\* No deploy run and no request is under way.
Quiet == (\A r \in RunIDs : runs[r] = IdleRun) /\ (\A h \in HandlerIDs : hs[h] = IdleHandler)

\* C14: after any sequence of deploy, stop and restart requests and failed
\* deploy runs, the container_ids of an image project are the handles of its
\* most recent successful bring-up, so every id in the list is a container
\* of the project that no later bring-up attempt has removed; the
\* container_ids of a compose project are empty.
C14_HandleListIsLastBringUp ==
    Quiet =>
       \A id \in DOMAIN store :
          IF store[id].deployType = DeployTypeCompose
          THEN store[id].containerIDs = <<>>
          ELSE \A cid \in Range(store[id].containerIDs) :
                  \E c \in containers : c.id = cid /\ c.project = id


\* C15: a bring-up of an image project whose name is the one its earlier
\* bring-up used leaves exactly one container of the project, the new one:
\* the container of the conventional name is removed before the new one is
\* created.
C15_OneHandleAfterBringUp ==
    [][\A r \in RunIDs :
          (runs[r].pc = "run" /\ runs'[r].pc = "health")
          => {c.id : c \in {d \in containers' : d.project = runs[r].proj.id}} = {runs'[r].cid}]_vars

\* The second bring-up of the project has created its container and the
\* first one's is gone.
C15_Witness ==
    \E r \in RunIDs :
       /\ runs[r].pc = "health" /\ runs[r].cid = 2
       /\ {c.id : c \in containers} = {2}


(***************************************************************************)
(* Properties of the project name.                                         *)
(***************************************************************************)
\* C16: after any sequence of create and edit requests, two create requests
\* for one name running concurrently included, no two rows of the store have
\* the same name.
C16_NamesUnique ==
    \A i, j \in DOMAIN store : i # j => store[i].name # store[j].name

\* A create request has passed its duplicate check and is about to insert,
\* while a concurrent request has put a row of that name into the store.
C16_Witness ==
    \E h \in DOMAIN hs :
       /\ hs[h].op = "create" /\ hs[h].pc = "insert"
       /\ GetByName(hs[h].proj.name) # NoProject

\* C17: the name of a project is immutable after creation: no operation,
\* the edit request in particular, changes the name of a row of the store.
C17_NameImmutable ==
    [][\A id \in DOMAIN store \cap DOMAIN store' : store'[id].name = store[id].name]_vars


(***************************************************************************)
(* Properties of the store calls.                                          *)
(***************************************************************************)
\* C18: a call of GetByID, GetByName, Update, UpdateStatus, UpdateLastCommit,
\* UpdateContainerIDs or Delete for an id (a name for GetByName) that no row
\* has reports not found, in a way that differs from success and from any
\* other failure, and leaves the store unchanged.
C18_MissingRowIsNotFound ==
    [][\A h \in HandlerIDs :
          (hs'[h].pc = "returned" /\ hs'[h].op \in StoreOps
              /\ IF hs'[h].op = "GetByName" THEN GetByName(hs'[h].proj.name) = NoProject
                                             ELSE hs'[h].proj.id \notin DOMAIN store)
          => /\ store' = store
             /\ IF hs'[h].op \in {"GetByID", "GetByName"}
                THEN hs'[h].res = NoProject /\ hs'[h].err = ""
                ELSE hs'[h].err = "project not found"]_vars


\* C19: store errors always propagate: a request whose status write failed
\* does not go on to the response of a successful request, so no write is
\* lost silently.
C19_FailedWriteIsReported ==
    [][\A h \in HandlerIDs :
          (hs[h].pc = "write" /\ hs'[h].steps # hs[h].steps /\ Last(hs'[h].steps) = "write:failed")
          => hs'[h].pc # "done"]_vars


(***************************************************************************)
(* Properties of overlapping deploy runs.                                  *)
(***************************************************************************)
\* C20: when deploy runs of one project overlap, the terminal status write
\* of a run lands whatever the status is at that moment and whatever the
\* other run has written: the last write wins, there is no compare-and-swap,
\* and the error of a run that fails late replaces the running status that
\* an overlapping run has written.
C20_LastTerminalWriteWins ==
    [][\A r \in RunIDs :
          (runs[r].pc \in {"status", "failed"} /\ runs'[r].pc = "idle"
              /\ runs[r].proj.id \in DOMAIN store)
          => LET p == store'[runs[r].proj.id] IN
             IF runs[r].pc = "failed"
             THEN p.status = StatusError /\ p.statusMsg = runs[r].err
             ELSE p.status = StatusRunning /\ p.statusMsg = ""]_vars

\* A manual run has written deploying and has failed; the status is running,
\* written since by the watcher's run of the same project, and the manual
\* run's error write is about to replace it.
C20_Witness ==
    \E r \in ManualRuns :
       /\ runs[r].pc = "failed" /\ runs[r].marked
       /\ GetByID(runs[r].proj.id).status = StatusRunning
       /\ runs[WatcherRun].pc = "idle"


\* A deploy request that is not being served can start a run for every
\* project of the store, whatever the project's status.
DeployAlwaysStarts ==
    \A r \in RerunIDs, id \in DOMAIN store : runs[r].pc = "idle" => ENABLED Deploy(r, id)

LabelsMade == lastCall.fn \in {"GenerateTraefikLabels", "GenerateTraefikLabelsForCompose"}

\* The names of the routers that a label set defines, and the label of a
\* router's field ("" when the set has none).
Routers(labels) == {k.name : k \in {j \in DOMAIN labels : j.kind = "router"}}
RouterLabel(labels, name, field) ==
    IF Key("router", name, field) \in DOMAIN labels THEN labels[Key("router", name, field)] ELSE ""

\* C23: a non-empty explicit domain is the effective domain whatever the
\* derive-subdomain flag and the base domain are; with an empty explicit
\* domain the effective domain is <name>.<baseDomain> when the flag is set
\* and the base domain is not empty; otherwise the label set is empty.  A
\* label set that is not empty is whole: enable flag, network, service port
\* and a router whose rule names the effective domain.
C23_EffectiveDomainOrNoLabels ==
    LabelsMade =>
       LET p == lastCall.arg.project
           base == lastCall.arg.baseDomain
           labels == lastCall.out
           expected == IF p.domain # <<>> THEN p.domain
                       ELSE IF p.useSubdomain /\ base # <<>> THEN p.name \o <<".">> \o base
                       ELSE <<>>
       IN
       IF expected = <<>>
       THEN DOMAIN labels = {}
       ELSE /\ Key("enable", <<>>, "") \in DOMAIN labels
            /\ Key("docker.network", <<>>, "") \in DOMAIN labels
            /\ \E k \in DOMAIN labels : k.kind = "service"
            /\ Routers(labels) # {}
            /\ \A r \in Routers(labels) : RouterLabel(labels, r, "rule") = [host |-> expected]

\* The labels of a project with an explicit domain, the derive-subdomain
\* flag and a base domain name the explicit domain.
C23_Witness ==
    /\ LabelsMade
    /\ lastCall.arg.project.domain # <<>>
    /\ lastCall.arg.project.useSubdomain /\ lastCall.arg.baseDomain # <<>>
    /\ \E r \in Routers(lastCall.out) :
          RouterLabel(lastCall.out, r, "rule") = [host |-> lastCall.arg.project.domain]

\* C24: for an effective domain that is localhost or ends in .localhost the
\* label set defines exactly one router, on the web entrypoint and without a
\* TLS label; for every other non-empty effective domain it defines exactly
\* two routers with the same Host rule, an HTTP router with the
\* redirect-to-HTTPS middleware and an HTTPS router with a certificate
\* resolver.
C24_OneRouterLocalElseTwo ==
    (LabelsMade /\ DOMAIN lastCall.out # {}) =>
       LET labels == lastCall.out
           domain == GetEffectiveDomain(lastCall.arg.project, lastCall.arg.baseDomain)
           local == \/ domain = Localhost
                    \/ \E i \in 1..Len(domain) : SubSeq(domain, i, Len(domain)) = <<".">> \o Localhost
           tls == {k \in DOMAIN labels : k.kind = "router" /\ k.field = "tls.certresolver"}
       IN
       IF local
       THEN /\ Cardinality(Routers(labels)) = 1
            /\ \A r \in Routers(labels) : RouterLabel(labels, r, "entrypoints") = "web"
            /\ tls = {}
       ELSE /\ Cardinality(Routers(labels)) = 2
            /\ \E h, t \in Routers(labels) :
                  /\ h # t
                  /\ RouterLabel(labels, h, "entrypoints") = "web"
                  /\ RouterLabel(labels, h, "middlewares") = "redirect-to-https@docker"
                  /\ RouterLabel(labels, t, "entrypoints") = "websecure"
                  /\ RouterLabel(labels, t, "tls.certresolver") = "letsencrypt"
                  /\ RouterLabel(labels, h, "rule") = [host |-> domain]
                  /\ RouterLabel(labels, t, "rule") = [host |-> domain]

\* The labels of a project whose derived domain ends in .localhost define
\* one router.
C24_Witness ==
    /\ LabelsMade
    /\ lastCall.arg.project.domain = <<>> /\ lastCall.arg.baseDomain = Localhost
    /\ Cardinality(Routers(lastCall.out)) = 1

\* The last call is one of InjectLabels.
Injected == lastCall.fn = "InjectLabels"

\* The services that carry a routing label: a label of the proxy other than
\* the enable flag.
Routed(out) ==
    {n \in DOMAIN out.services : \E k \in DOMAIN out.services[n].labels : Conflicting(k)}

\* C25: for a project that has a domain, InjectLabels gives routing labels to
\* exactly one service of the document: the override if there is one, else
\* the first name of the priority list that is a service, else one service
\* of the document; no other service carries a routing label.
C25_OneMainServiceRouted ==
    (Injected /\ lastCall.arg.project.domain # <<>>) =>
        LET compose == lastCall.arg.compose
            mainService == lastCall.arg.mainService
            routed == Routed(lastCall.out)
            found == {i \in DOMAIN mainCandidates : mainCandidates[i] \in DOMAIN compose.services}
        IN /\ Cardinality(routed) = 1
           /\ routed \subseteq DOMAIN compose.services
           /\ mainService # <<>> => routed = {mainService}
           /\ (mainService = <<>> /\ found # {}) =>
                 routed = {mainCandidates[CHOOSE i \in found : \A j \in found : i <= j]}

\* How often a service lists the shared network.
Listed(networks) == Cardinality({i \in DOMAIN networks : networks[i] = NetworkName})

\* The management labels of every service and the removal of the labels of
\* the proxy the document gave it: such a key is gone, or it is one of the
\* generated labels of the main service with the generated value.
ManagedAndStripped ==
    LET p == lastCall.arg.project
        compose == lastCall.arg.compose
    IN \A n \in DOMAIN compose.services :
          LET labels == lastCall.out.services[n].labels
              before == getLabelsAsMap(compose.services[n].labels)
              made == GenerateTraefikLabelsForCompose(p, <<>>, n)
          IN /\ ManagedKey \in DOMAIN labels /\ labels[ManagedKey] = "true"
             /\ ProjectKey \in DOMAIN labels /\ labels[ProjectKey] = p.id
             /\ \A k \in DOMAIN before :
                   (Conflicting(k) /\ k \in DOMAIN labels) =>
                       (k \in DOMAIN made /\ labels[k] = made[k] /\ n \in Routed(lastCall.out))

\* C26 as stated: after InjectLabels every service lists the shared network
\* exactly once, carries managed=true and project=<id>, and none of the
\* traefik.* labels the document gave it other than traefik.enable.
C26_NetworkOnceManagedStripped ==
    Injected =>
        /\ \A n \in DOMAIN lastCall.arg.compose.services :
              Listed(lastCall.out.services[n].networks) = 1
        /\ ManagedAndStripped

\* C26 as the code has it: the shared network is appended once to a service
\* that does not list it and a service that lists it keeps its list, so it
\* is listed as often as before and at least once; the labels are as stated.
C26_NetworkKeptOrAddedManagedStripped ==
    Injected =>
        /\ \A n \in DOMAIN lastCall.arg.compose.services :
              LET was == Listed(StringsOf(IF lastCall.arg.compose.services[n].networks.form = "list"
                                         THEN lastCall.arg.compose.services[n].networks.items
                                         ELSE <<>>))
                  isMap == lastCall.arg.compose.services[n].networks.form = "map"
                  now == Listed(lastCall.out.services[n].networks)
              IN IF isMap \/ was = 0 THEN now = 1 ELSE now = was
        /\ ManagedAndStripped

\* A document whose service had labels of the proxy and a network list
\* without the shared network has been injected.
C26_Witness ==
    /\ Injected
    /\ \E n \in DOMAIN lastCall.arg.compose.services :
          /\ lastCall.arg.compose.services[n] =
                [labels |-> MapLabels, networks |-> List(<<Str("default")>>)]
          /\ lastCall.out.services[n].networks = <<"default", NetworkName>>
          /\ OldRule \notin DOMAIN lastCall.out.services[n].labels
          /\ lastCall.out.services[n].labels[Key("enable", <<>>, "")] = "false"

\* The runtime resources of the project a request works on are absent: no
\* container carries the label of an image project; nothing of a compose
\* project is running.
Absent(p) ==
    IF p.deployType = DeployTypeCompose THEN p.name \notin stacks
    ELSE ListProjectContainers(p.id) = {}

\* The tear-down step of a stop or delete request.
TearDown(h) == StopTearDown(h) \/ DeleteTearDown(h)

\* C27: the tear-down of a project whose runtime resources are absent can
\* report success, for both adapters and also when a compose project has
\* neither a derived nor an original compose document, and a tear-down that
\* finds the resources absent changes nothing of the runtime.
C27_AbsentTearDownSucceeds ==
    \A h \in HandlerIDs :
       (hs[h].op \in {"stop", "delete"} /\ hs[h].pc = "teardown" /\ Absent(hs[h].proj)) =>
           ENABLED (TearDown(h) /\ ~hs'[h].failed /\ UNCHANGED dockerVars)

\* The last call is one of CheckForUpdates that returned no error.
Checked == lastCall.fn = "CheckForUpdates" /\ ~lastCall.out.err

\* The call before the last one was one for the same checkout that returned
\* no error, and the remote tip and the local HEAD are what they were then.
CheckedTwice ==
    /\ Checked
    /\ lastCall.arg.prev.name = lastCall.arg.name
    /\ ~lastCall.arg.prev.err
    /\ lastCall.arg.prev.tip = lastCall.out.tip
    /\ lastCall.arg.prev.head = lastCall.arg.head

\* CheckForUpdates reports an update exactly when HEAD differs from the
\* fetched tip and returns that tip.
ReportsDifference ==
    Checked => /\ lastCall.out.has = (lastCall.arg.head # lastCall.out.tip)
               /\ lastCall.out.tip = lastCall.arg.remote

\* CheckForUpdates leaves the HEAD of every checkout as it was.
KeepsHead == (lastCall' # lastCall /\ lastCall'.fn = "CheckForUpdates") => repos' = repos

\* C28 as stated: CheckForUpdates reports an update exactly when the local
\* HEAD differs from the remote tip read after the fetch and returns that
\* tip, does not change the local HEAD, and a second call with no remote
\* change in between returns false, as the first did.
C28_SecondCheckFalse ==
    /\ [](ReportsDifference /\ (CheckedTwice => (~lastCall.arg.prev.has /\ ~lastCall.out.has)))
    /\ [][KeepsHead]_vars

\* C28 as the code has it: a second call with no remote change and no pull
\* in between returns what the first returned, false both times when the
\* HEAD is at the tip and true both times when it is not.
C28_SecondCheckSame ==
    /\ [](ReportsDifference /\ (CheckedTwice => (lastCall.out.has = lastCall.arg.prev.has)))
    /\ [][KeepsHead]_vars

\* CheckForUpdates has been called twice on a checkout that is behind the
\* remote tip, with no push and no pull in between.
C28_Witness ==
    /\ CheckedTwice
    /\ lastCall.arg.head = 1 /\ lastCall.out.tip = 2
    /\ lastCall.out.has /\ lastCall.arg.prev.has
    /\ repos[lastCall.arg.name] = 1

\* The handle lists of the store.
HandleLists(s) == [id \in DOMAIN s |-> s[id].containerIDs]

\* C29: a failed health wait of an image deploy leaves the containers as
\* they are, the created one included; the run's caller then writes the
\* status error and nothing else, and no step of a run before its handle
\* write changes a handle list.
C29_FailedHealthKeepsInstance ==
    [][\A r \in RunIDs :
         /\ (runs[r].pc = "health" /\ runs'[r].pc = "failed") =>
                (containers' = containers /\ store' = store)
         /\ (runs[r].pc = "failed" /\ runs[r].err = "container health check failed"
                /\ runs'[r] # runs[r]) =>
                /\ containers' = containers
                /\ HandleLists(store') = HandleLists(store)
                /\ runs[r].proj.id \in DOMAIN store =>
                      store'[runs[r].proj.id].status = StatusError
         /\ (runs'[r] # runs[r] /\ runs[r].pc # "handles") =>
                HandleLists(store') = HandleLists(store)]_vars

\* A first deploy of an image project has failed at its health wait: the
\* status is error, the exited container is still there and the handle list
\* is the empty one of the new row.
C29_Witness ==
    \E id \in DOMAIN store :
       /\ store[id].status = StatusError
       /\ store[id].statusMsg = "container health check failed"
       /\ store[id].containerIDs = <<>>
       /\ \E c \in containers : c.project = id /\ c.state = "exited"
       /\ \A r \in RunIDs : runs[r].pc = "idle"

\* The polls of the wait before its last one.
Earlier(seen) == {seen[i] : i \in 1..(Len(seen) - 1)}

\* What ends a wait at a poll.
Ending == {"running", "exited", "dead", "inspect failed"}

\* The wait has returned, and it returned what its polls and its clock
\* call for; errs are the errors it may return.
ReturnsBy(errs) ==
    WaitAt("done") =>
        LET seen == lastCall.out.seen
            err == lastCall.out.err
            last == IF seen = <<>> THEN "" ELSE Last(seen)
        IN /\ err \in errs \cup {""}
           /\ Earlier(seen) \cap Ending = {}
           /\ (err = "") = (last = "running")
           /\ (err = "container exited unexpectedly") = (last \in {"exited", "dead"})
           /\ (err = "timeout waiting for container to be healthy") =>
                 (last \notin Ending /\ lastCall.out.now >= lastCall.arg.timeout)
           /\ (last \notin Ending) => err = "timeout waiting for container to be healthy"

StartsWith(str, prefix) == Len(str) >= Len(prefix) /\ SubSeq(str, 1, Len(prefix)) = prefix

\* C31: for every git URL getAuth chooses public-key authentication exactly
\* when the URL starts with git@ or ssh:// and a key file is configured and
\* exists, and no authentication for every other URL, the short ones
\* included; it never fails.
C31_AuthSelectionTotal ==
    lastCall.fn = "getAuth" =>
        lastCall.out =
            IF /\ (StartsWith(lastCall.arg.url, GitAt) \/ StartsWith(lastCall.arg.url, SSHScheme))
               /\ lastCall.arg.key # "" /\ lastCall.arg.exists
            THEN "publickey" ELSE "none"

\* C32: a value of the watch-interval setting that does not parse, or that
\* parses to zero or less, gives the interval of 60 s, and the scan loop of
\* the watcher starts and keeps running for every value.
C32_BadIntervalFallsBack ==
    lastCall.fn = "loadConfig" =>
        LET parsed == ParseDuration(getEnv(lastCall.arg))
        IN /\ (~parsed.ok \/ parsed.ms <= 0) => lastCall.out.interval = 60000
           /\ lastCall.out.loop # "panicked"

\* C33: when Watcher.Stop returns from its wait, no scan loop is alive and
\* none is about to be started by a Start that has already set running: no
\* scan of the watcher begins after the return.
C33_StopReturnsLoopGone ==
    [][\A c \in CallerIDs :
         (callers[c] = "wait" /\ callers'[c] = "idle") =>
             /\ Alive = {}
             /\ \A d \in CallerIDs : callers[d] # "spawn"]_vars

\* The columns of a row that the deploy runs, the stop and restart requests
\* and the watcher write.
RunColumns(p) ==
    [status |-> p.status, statusMsg |-> p.statusMsg, lastCommit |-> p.lastCommit,
     containerIDs |-> p.containerIDs]

\* C34: the step of an edit request that saves the project leaves the
\* status, the status message, the last commit and the handle list of every
\* row as the store holds them at that step.
C34_EditKeepsRunColumns ==
    [][\A h \in HandlerIDs :
         (hs[h].op = "edit" /\ hs[h].pc = "update" /\ hs'[h].pc = "idle") =>
             \A id \in DOMAIN store :
                id \in DOMAIN store' /\ RunColumns(store'[id]) = RunColumns(store[id])]_vars

\* The ids of the projects whose record has been removed.
Deleted == {id \in 1..(nextID - 1) : id \notin DOMAIN store}

\* C35: once the record of a project is removed it does not reappear, and no
\* container labelled with the project's id is created afterwards, whatever
\* deploy run of the project is still in flight.
C35_NothingAfterDelete ==
    [][\A id \in Deleted :
         /\ id \notin DOMAIN store'
         /\ {c \in containers' : c.project = id} \subseteq ListProjectContainers(id)]_vars

\* C36: when the watcher starts a deploy run of a project, no other deploy
\* run of that project is in flight.
C36_WatcherRunNeverOverlaps ==
    [][(runs[WatcherRun].pc = "idle" /\ runs'[WatcherRun].pc # "idle") =>
          \A r \in RunIDs \ {WatcherRun} :
             runs[r].pc = "idle" \/ runs[r].proj.id # runs'[WatcherRun].proj.id]_vars

\* What of a project is up: its running containers, and its compose stack.
Up(p) ==
    [running |-> {c \in containers : c.project = p.id /\ c.state = "running"},
     stack |-> p.deployType = DeployTypeCompose /\ p.name \in stacks]

\* C37: with no deploy and no restart request made, a project that was
\* stopped before the scan of the watcher listed it keeps status stopped and
\* nothing of it is brought up; the scan starts no deploy for it.
C37_StoppedStaysStopped ==
    [][\A id \in DOMAIN store :
         (/\ store[id].status = StatusStopped
          /\ wpc # "idle" => \A i \in DOMAIN wlist :
                 wlist[i].id = id => wlist[i].status = StatusStopped) =>
            /\ id \in DOMAIN store' /\ store'[id].status = StatusStopped
            /\ {c \in containers' : c.project = id /\ c.state = "running"}
                   \subseteq Up(store[id]).running
            /\ (store[id].name \in stacks' /\ store[id].deployType = DeployTypeCompose)
                   => Up(store[id]).stack
            /\ (runs[WatcherRun].pc = "idle" /\ runs'[WatcherRun].pc # "idle")
                   => runs'[WatcherRun].proj.id # id]_vars
\* C38: a project of kind image whose stored status is running has a
\* non-empty handle list, and a handle of the list names a container that
\* exists.
C38_RunningImageOwnsInstance ==
    \A id \in DOMAIN store :
       (store[id].deployType = DeployTypeImage /\ store[id].status = StatusRunning) =>
          /\ store[id].containerIDs # <<>>
          /\ \E i \in DOMAIN store[id].containerIDs :
                \E c \in containers : c.id = store[id].containerIDs[i]

\* The watcher's deploy of the project has failed and the row is in error.
FailedAutoDeploy(id) ==
    /\ id \in DOMAIN store
    /\ store[id].status = StatusError
    /\ runs[WatcherRun].pc = "idle"

\* The scan takes the project up again: it starts a deploy of it, or a fetch
\* or a pull of its repository fails in the scan.
TakenUpAgain(id) ==
    \/ runs[WatcherRun].pc # "idle" /\ runs[WatcherRun].proj.id = id
    \/ \E i \in DOMAIN wtrace :
          /\ wtrace[i].id = id
          /\ \E k \in DOMAIN wtrace[i].calls :
                wtrace[i].calls[k] \in {"HasUpdate:failed", "Pull:failed"}

\* C39: after a deploy started by the watcher has failed, a later scan
\* starts a deploy of the project again (unless git fails in that scan),
\* also when the remote does not advance.
C39_FailedAutoDeployRetried ==
    \A id \in {1, 2} : FailedAutoDeploy(id) ~> TakenUpAgain(id)

====
